---- MODULE Spec2Model ----
(***************************************************************************)
(* Model of the logos refactor engine (crate logos-refactor): the          *)
(* RefactorContext text queries, the expression analysis helpers, the      *)
(* extract-variable transformation, the safe-delete transformation and     *)
(* RefactorEngine; and of the C++ adapter of crate logos-index: the        *)
(* parser lock and the traversal that builds symbols, imports and calls;   *)
(* of the comment scanner and the TODO index (logos-index), the unused     *)
(* symbol detector (logos-semantic) and the LanguageService of logos-wasm. *)
(* Text is a sequence of one-character strings; positions are zero-based   *)
(* (line, column) records as in logos_core.                                *)
(***************************************************************************)
EXTENDS Integers, Sequences, FiniteSets, TLC

\* ------------------------------------------------------------------------
\* Characters and Rust str primitives
\* ------------------------------------------------------------------------

\* char::is_whitespace restricted to the characters of the model
IsWs(c) == c \in {" ", "\t", "\n", "\r"}

Letters ==
    {"a","b","c","d","e","f","g","h","i","j","k","l","m",
     "n","o","p","q","r","s","t","u","v","w","x","y","z",
     "A","B","C","D","E","F","G","H","I","J","K","L","M",
     "N","O","P","Q","R","S","T","U","V","W","X","Y","Z"}

Digits == {"0","1","2","3","4","5","6","7","8","9"}

\* regex class \w, and char::is_alphanumeric() || c == '_'
IsWord(c) == c \in Letters \cup Digits \cup {"_"}

\* regex class [a-zA-Z_]
IsIdentStart(c) == c \in Letters \cup {"_"}

\* str::starts_with
StartsWith(s, p) == Len(p) <= Len(s) /\ SubSeq(s, 1, Len(p)) = p

\* str::ends_with(char)
EndsWithChar(s, c) == Len(s) > 0 /\ s[Len(s)] = c

\* index of the first non-whitespace character, Len(s)+1 when there is none
FirstNonWs(s) ==
    IF \A i \in 1..Len(s) : IsWs(s[i]) THEN Len(s) + 1
    ELSE CHOOSE i \in 1..Len(s) : ~IsWs(s[i]) /\ \A j \in 1..(i-1) : IsWs(s[j])

\* index of the last non-whitespace character, 0 when there is none
LastNonWs(s) ==
    IF \A i \in 1..Len(s) : IsWs(s[i]) THEN 0
    ELSE CHOOSE i \in 1..Len(s) : ~IsWs(s[i]) /\ \A j \in (i+1)..Len(s) : IsWs(s[j])

\* str::trim_start
TrimStart(s) == SubSeq(s, FirstNonWs(s), Len(s))

\* str::trim
Trim(s) == SubSeq(s, FirstNonWs(s), LastNonWs(s))

\* str::contains(&str)
Contains(s, p) ==
    \E i \in 1..(Len(s) - Len(p) + 1) : SubSeq(s, i, i + Len(p) - 1) = p

Min(a, b) == IF a <= b THEN a ELSE b

\* one line of str::lines: a "\r" directly before the "\n" is dropped
StripCR(l) == IF EndsWithChar(l, "\r") THEN SubSeq(l, 1, Len(l) - 1) ELSE l

RECURSIVE SplitLines(_, _, _)
SplitLines(s, i, cur) ==
    IF i > Len(s) THEN (IF cur = <<>> THEN <<>> ELSE <<cur>>)
    ELSE IF s[i] = "\n" THEN <<StripCR(cur)>> \o SplitLines(s, i + 1, <<>>)
    ELSE SplitLines(s, i + 1, Append(cur, s[i]))

\* str::lines().collect(): split at "\n" / "\r\n", no empty last line
Lines(s) == SplitLines(s, 1, <<>>)

\* ------------------------------------------------------------------------
\* logos_core Position / Range
\* ------------------------------------------------------------------------

Pos(l, c) == [line |-> l, column |-> c]

Rng(s, e) == [start |-> s, end |-> e]

from_coords(sl, sc, el, ec) == Rng(Pos(sl, sc), Pos(el, ec))

point(l, c) == Rng(Pos(l, c), Pos(l, c))

\* Position ordering: by line, then by column
PosLT(a, b) == a.line < b.line \/ (a.line = b.line /\ a.column < b.column)

PosLE(a, b) == a = b \/ PosLT(a, b)

\* Range::overlaps: the two intervals share a non-empty stretch of text
overlaps(r, o) == PosLT(r.start, o.end) /\ PosLT(o.start, r.end)

\* ------------------------------------------------------------------------
\* RefactorContext (lib.rs)
\* ------------------------------------------------------------------------

\* the slice line[start..] / line[..end] / line[start..end], columns 0-based
Slice(line, startCol, endCol) == SubSeq(line, startCol + 1, endCol)

RECURSIVE text_in_range_multi(_, _, _)
text_in_range_multi(lines, range, i) ==
    IF i > range.end.line \/ i >= Len(lines) THEN <<>>
    ELSE LET line == lines[i + 1]
             part == IF i = range.start.line
                       THEN Slice(line, Min(range.start.column, Len(line)), Len(line))
                     ELSE IF i = range.end.line
                       THEN Slice(line, 0, Min(range.end.column, Len(line)))
                     ELSE line
             sep  == IF i < range.end.line THEN <<"\n">> ELSE <<>>
         IN part \o sep \o text_in_range_multi(lines, range, i + 1)

text_in_range(source, range) ==
    LET lines == Lines(source) IN
    IF range.start.line >= Len(lines) THEN <<>>
    ELSE IF range.start.line = range.end.line
      THEN LET line == lines[range.start.line + 1]
           IN Slice(line, Min(range.start.column, Len(line)),
                          Min(range.end.column, Len(line)))
      ELSE text_in_range_multi(lines, range, range.start.line)

\* leading-whitespace length of a line: text.len() - text.trim_start().len()
IndentLen(line) == Len(line) - Len(TrimStart(line))

indentation_at(source, line) ==
    LET lines == Lines(source) IN
    IF line < Len(lines)
      THEN SubSeq(lines[line + 1], 1, IndentLen(lines[line + 1]))
      ELSE <<>>

\* ------------------------------------------------------------------------
\* analysis.rs
\* ------------------------------------------------------------------------

Languages == {"Python", "JavaScript", "TypeScript", "Rust", "Go", "Java", "C", "Cpp"}

\* the character '`', which a TLA+ string cannot hold
Backtick == "backtick"

\* Vec::pop on the delimiter stack: None is modelled by "none"
StackTop(stack) == IF stack = <<>> THEN "none" ELSE stack[Len(stack)]

StackPop(stack) == IF stack = <<>> THEN <<>> ELSE SubSeq(stack, 1, Len(stack) - 1)

RECURSIVE balanced_scan(_, _, _, _, _, _)
balanced_scan(text, i, stack, in_string, string_char, prev_char) ==
    IF i > Len(text) THEN stack = <<>> /\ ~in_string
    ELSE LET ch == text[i] IN
      IF in_string
        THEN balanced_scan(text, i + 1, stack,
                           ~(ch = string_char /\ prev_char # "\\"), string_char, ch)
      ELSE IF ch \in {"\"", "'", Backtick}
        THEN balanced_scan(text, i + 1, stack, TRUE, ch, ch)
      ELSE IF ch \in {"(", "[", "{"}
        THEN balanced_scan(text, i + 1, Append(stack, ch), FALSE, string_char, ch)
      ELSE IF ch = ")"
        THEN StackTop(stack) = "(" /\
             balanced_scan(text, i + 1, StackPop(stack), FALSE, string_char, ch)
      ELSE IF ch = "]"
        THEN StackTop(stack) = "[" /\
             balanced_scan(text, i + 1, StackPop(stack), FALSE, string_char, ch)
      ELSE IF ch = "}"
        THEN StackTop(stack) = "{" /\
             balanced_scan(text, i + 1, StackPop(stack), FALSE, string_char, ch)
      ELSE balanced_scan(text, i + 1, stack, FALSE, string_char, ch)

has_balanced_delimiters(text) == balanced_scan(text, 1, <<>>, FALSE, "\"", " ")

ControlKeywords ==
    {<<"i","f">>, <<"e","l","s","e">>, <<"f","o","r">>, <<"w","h","i","l","e">>, <<"s","w","i","t","c","h">>, <<"c","a","s","e">>, <<"t","r","y">>, <<"c","a","t","c","h">>, <<"f","i","n","a","l","l","y">>}

IncompleteDeclKeywords ==
    {<<"l","e","t">>, <<"c","o","n","s","t">>, <<"v","a","r">>, <<"f","u","n","c","t","i","o","n">>, <<"c","l","a","s","s">>, <<"i","n","t","e","r","f","a","c","e">>, <<"t","y","p","e">>}

\* ^(if|else|for|while|switch|case|try|catch|finally)\s*$
matches_bare_control(t) ==
    \E kw \in ControlKeywords :
        StartsWith(t, kw) /\ \A i \in (Len(kw) + 1)..Len(t) : IsWs(t[i])

\* ^\w+\s*:\s*$
matches_label(t) ==
    \E c \in 1..Len(t) :
        /\ t[c] = ":"
        /\ \A i \in (c + 1)..Len(t) : IsWs(t[i])
        /\ \E k \in 1..(c - 1) :
              /\ \A i \in 1..k : IsWord(t[i])
              /\ \A i \in (k + 1)..(c - 1) : IsWs(t[i])

\* ^(let|const|var|function|class|interface|type)\s+\w*$
matches_incomplete_decl(t) ==
    \E kw \in IncompleteDeclKeywords :
        /\ StartsWith(t, kw)
        /\ \E k \in (Len(kw) + 1)..Len(t) :
              /\ \A i \in (Len(kw) + 1)..k : IsWs(t[i])
              /\ \A i \in (k + 1)..Len(t) : IsWord(t[i])

\* variant: the bare control keyword pattern is not tried
matches_incomplete_pattern_no_control(t) ==
    matches_label(t) \/ matches_incomplete_decl(t)

matches_incomplete_pattern(t) ==
    matches_bare_control(t) \/ matches_label(t) \/ matches_incomplete_decl(t)

PythonStatementStarts ==
    {<<"d","e","f"," ">>, <<"c","l","a","s","s"," ">>, <<"i","f"," ">>, <<"f","o","r"," ">>, <<"w","h","i","l","e"," ">>, <<"t","r","y",":">>, <<"e","x","c","e","p","t",":">>, <<"w","i","t","h"," ">>}

is_valid_python_expression(text) ==
    /\ \A start \in PythonStatementStarts : ~StartsWith(text, start)
    /\ ~EndsWithChar(text, ":")

JsStatementStarts ==
    {<<"f","u","n","c","t","i","o","n"," ">>, <<"c","l","a","s","s"," ">>, <<"i","f"," ">>, <<"f","o","r"," ">>, <<"w","h","i","l","e"," ">>, <<"s","w","i","t","c","h"," ">>, <<"t","r","y"," ">>,
     <<"c","o","n","s","t"," ">>, <<"l","e","t"," ">>, <<"v","a","r"," ">>}

is_valid_js_expression(text) ==
    \A start \in JsStatementStarts :
        ~(StartsWith(text, start) /\ ~Contains(text, <<"=",">">>))

RustStatementStarts ==
    {<<"f","n"," ">>, <<"s","t","r","u","c","t"," ">>, <<"e","n","u","m"," ">>, <<"i","m","p","l"," ">>, <<"t","r","a","i","t"," ">>, <<"m","o","d"," ">>, <<"u","s","e"," ">>, <<"p","u","b"," ">>}

is_valid_rust_expression(text) ==
    /\ \A start \in RustStatementStarts : ~StartsWith(text, start)
    /\ ~EndsWithChar(text, "{")

GoStatementStarts ==
    {<<"f","u","n","c"," ">>, <<"t","y","p","e"," ">>, <<"v","a","r"," ">>, <<"c","o","n","s","t"," ">>, <<"p","a","c","k","a","g","e"," ">>, <<"i","m","p","o","r","t"," ">>}

is_valid_go_expression(text) ==
    /\ \A start \in GoStatementStarts : ~StartsWith(text, start)
    /\ ~EndsWithChar(text, "{")

is_valid_expression(text, language) ==
    LET trimmed == Trim(text) IN
    IF trimmed = <<>> THEN FALSE
    ELSE IF ~has_balanced_delimiters(trimmed) THEN FALSE
    ELSE IF matches_incomplete_pattern(trimmed) THEN FALSE
    ELSE CASE language = "Python" -> is_valid_python_expression(trimmed)
           [] language \in {"JavaScript", "TypeScript"} -> is_valid_js_expression(trimmed)
           [] language = "Rust" -> is_valid_rust_expression(trimmed)
           [] language = "Go" -> is_valid_go_expression(trimmed)
           [] OTHER -> ~EndsWithChar(trimmed, "{") /\ ~StartsWith(trimmed, <<"}">>)

PythonLineStarts ==
    {<<"i","f"," ">>, <<"f","o","r"," ">>, <<"w","h","i","l","e"," ">>, <<"d","e","f"," ">>, <<"c","l","a","s","s"," ">>, <<"r","e","t","u","r","n"," ">>, <<"w","i","t","h"," ">>}

RustLineStarts ==
    {<<"l","e","t"," ">>, <<"i","f"," ">>, <<"f","o","r"," ">>, <<"w","h","i","l","e"," ">>, <<"m","a","t","c","h"," ">>, <<"r","e","t","u","r","n"," ">>, <<"f","n"," ">>}

DefaultLineStarts ==
    {<<"c","o","n","s","t"," ">>, <<"l","e","t"," ">>, <<"v","a","r"," ">>, <<"i","f"," ">>, <<"f","o","r"," ">>, <<"w","h","i","l","e"," ">>, <<"r","e","t","u","r","n"," ">>, <<"f","u","n","c","t","i","o","n"," ">>}

\* the is_statement_start test of the upward scan, for line index i
is_statement_start(lines, i, language) ==
    LET line == Trim(lines[i + 1])
        prev == IF i > 0 THEN Trim(lines[i]) ELSE <<>>
    IN CASE language = "Python" ->
              \/ \E kw \in PythonLineStarts : StartsWith(line, kw)
              \/ (i > 0 /\ prev = <<>>)
              \/ i = 0
         [] language = "Rust" ->
              \/ \E kw \in RustLineStarts : StartsWith(line, kw)
              \/ (i > 0 /\ EndsWithChar(prev, ";"))
              \/ (i > 0 /\ EndsWithChar(prev, "}"))
              \/ i = 0
         [] OTHER ->
              \/ \E kw \in DefaultLineStarts : StartsWith(line, kw)
              \/ (i > 0 /\ EndsWithChar(prev, ";"))
              \/ (i > 0 /\ EndsWithChar(prev, "}"))
              \/ i = 0

\* variant: the declaration goes to the expression's own line
scan_up_no_scan(lines, i, expr_line, language) == expr_line

\* for i in (0..=expr_line).rev(): the first statement start, else expr_line
RECURSIVE scan_up(_, _, _, _)
scan_up(lines, i, expr_line, language) ==
    IF is_statement_start(lines, i, language) THEN i
    ELSE IF i = 0 THEN expr_line
    ELSE scan_up(lines, i - 1, expr_line, language)

find_declaration_insertion_point(source, expression_range, language) ==
    LET lines     == Lines(source)
        expr_line == expression_range.start.line
    IN IF expr_line >= Len(lines) THEN Pos(0, 0)
       ELSE LET target_line == scan_up(lines, expr_line, expr_line, language)
            IN Pos(target_line, IndentLen(lines[target_line + 1]))

\* ------------------------------------------------------------------------
\* RefactorError, TextEdit, RefactorResult (lib.rs)
\* ------------------------------------------------------------------------

NoUsages == <<>>

Err(kind, message, usages) ==
    [ok |-> FALSE, kind |-> kind, message |-> message, usages |-> usages]

NoExpression == Err("NoExpression", <<>>, NoUsages)

CannotExtract(message) == Err("CannotExtract", message, NoUsages)

InvalidSelection(message) == Err("InvalidSelection", message, NoUsages)

SymbolInUse(usages) == Err("SymbolInUse", <<>>, usages)

Ok(value) == [ok |-> TRUE, value |-> value]

TextEdit_insert(position, text) ==
    [range |-> point(position.line, position.column), new_text |-> text]

TextEdit_delete(range) == [range |-> range, new_text |-> <<>>]

TextEdit_replace(range, text) == [range |-> range, new_text |-> text]

\* Option<String>: None is the empty sequence, Some(s) is <<s>>
None == <<>>

Some(s) == <<s>>

\* a map of no entries (HashMap::new)
EmptyMap == [k \in {} |-> <<>>]

RefactorResult_new(edits, description) ==
    [edits |-> edits, generated_code |-> None, description |-> description]

with_generated_code(res, code) == [res EXCEPT !.generated_code = Some(code)]

selected_text(ctx) == text_in_range(ctx.source, ctx.selection)

\* ------------------------------------------------------------------------
\* extract_variable.rs
\* ------------------------------------------------------------------------

\* variant: only the empty selection is refused
can_extract_no_validity(ctx) ==
    LET selected == Trim(selected_text(ctx)) IN
    IF selected = <<>> THEN NoExpression
    ELSE Ok(TRUE)

can_extract(ctx) ==
    LET selected == Trim(selected_text(ctx)) IN
    IF selected = <<>> THEN NoExpression
    ELSE IF ~is_valid_expression(selected, ctx.language)
      THEN CannotExtract(<<"S","e","l","e","c","t","i","o","n"," ","i","s"," ","n","o","t"," ","a"," ","v","a","l","i","d"," ","e","x","p","r","e","s","s","i","o","n">>)
    ELSE Ok(TRUE)

\* Regex::find_iter of an escaped literal: leftmost, non-overlapping matches
RECURSIVE find_iter_literal(_, _, _)
find_iter_literal(s, pat, from) ==
    IF from + Len(pat) > Len(s) THEN <<>>
    ELSE IF SubSeq(s, from + 1, from + Len(pat)) = pat
      THEN <<[start |-> from, end |-> from + Len(pat)]>>
           \o find_iter_literal(s, pat, from + Len(pat))
    ELSE find_iter_literal(s, pat, from + 1)

\* line_offsets: offset += line.len() + 1 for every line of str::lines
RECURSIVE line_offsets_from(_, _, _)
line_offsets_from(lines, i, offset) ==
    IF i > Len(lines) THEN <<>>
    ELSE <<offset>> \o line_offsets_from(lines, i + 1, offset + Len(lines[i]) + 1)

RECURSIVE offset_to_position_from(_, _, _, _)
offset_to_position_from(line_offsets, lines, offset, i) ==
    IF i >= Len(line_offsets) THEN Pos(0, 0)
    ELSE LET line_offset == line_offsets[i + 1]
             line_end == IF i + 1 < Len(line_offsets)
                           THEN line_offsets[i + 2] - 1
                           ELSE line_offset + Len(lines[i + 1])
         IN IF offset <= line_end THEN Pos(i, offset - line_offset)
            ELSE offset_to_position_from(line_offsets, lines, offset, i + 1)

offset_to_position(line_offsets, lines, offset) ==
    offset_to_position_from(line_offsets, lines, offset, 0)

find_occurrences(ctx) ==
    LET trimmed == Trim(selected_text(ctx)) IN
    IF trimmed = <<>> THEN <<ctx.selection>>
    ELSE LET lines        == Lines(ctx.source)
             line_offsets == line_offsets_from(lines, 1, 0)
             matches      == find_iter_literal(ctx.source, trimmed, 0)
             occurrences  ==
                 [k \in 1..Len(matches) |->
                     Rng(offset_to_position(line_offsets, lines, matches[k].start),
                         offset_to_position(line_offsets, lines, matches[k].end))]
         IN IF occurrences = <<>> THEN <<ctx.selection>> ELSE occurrences

\* variant: the indentation is left out of the declaration
generate_declaration_no_indent(name, value, language, indent) ==
    CASE language = "Python" -> name \o <<" ","="," ">> \o value \o <<"\n">>
      [] language \in {"JavaScript", "TypeScript"} ->
           <<"c","o","n","s","t"," ">> \o name \o <<" ","="," ">> \o value \o <<";","\n">>
      [] language = "Rust" -> <<"l","e","t"," ">> \o name \o <<" ","="," ">> \o value \o <<";","\n">>
      [] language = "Go" -> name \o <<" ",":","="," ">> \o value \o <<"\n">>
      [] language = "Java" -> <<"v","a","r"," ">> \o name \o <<" ","="," ">> \o value \o <<";","\n">>
      [] language \in {"C", "Cpp"} ->
           <<"a","u","t","o"," ">> \o name \o <<" ","="," ">> \o value \o <<";","\n">>

generate_declaration(name, value, language, indent) ==
    CASE language = "Python" -> indent \o name \o <<" ","="," ">> \o value \o <<"\n">>
      [] language = "JavaScript" ->
           indent \o <<"c","o","n","s","t"," ">> \o name \o <<" ","="," ">> \o value \o <<";","\n">>
      [] language = "TypeScript" ->
           indent \o <<"c","o","n","s","t"," ">> \o name \o <<" ","="," ">> \o value \o <<";","\n">>
      [] language = "Rust" -> indent \o <<"l","e","t"," ">> \o name \o <<" ","="," ">> \o value \o <<";","\n">>
      [] language = "Go" -> indent \o name \o <<" ",":","="," ">> \o value \o <<"\n">>
      [] language = "Java" -> indent \o <<"v","a","r"," ">> \o name \o <<" ","="," ">> \o value \o <<";","\n">>
      [] language \in {"C", "Cpp"} ->
           indent \o <<"a","u","t","o"," ">> \o name \o <<" ","="," ">> \o value \o <<";","\n">>

\* sort_by(|a, b| b.start.cmp(&a.start)): stable sort, descending start
RECURSIVE insert_desc(_, _)
insert_desc(sorted, r) ==
    IF sorted = <<>> THEN <<r>>
    ELSE IF PosLT(Head(sorted).start, r.start) THEN <<r>> \o sorted
    ELSE <<Head(sorted)>> \o insert_desc(Tail(sorted), r)

RECURSIVE sort_desc_by_start(_)
sort_desc_by_start(ranges) ==
    IF ranges = <<>> THEN <<>>
    ELSE insert_desc(sort_desc_by_start(SubSeq(ranges, 1, Len(ranges) - 1)),
                     ranges[Len(ranges)])

\* variant: every textual occurrence is replaced
extract_occurrences_all(ctx) == find_occurrences(ctx)

\* the occurrences extract replaces: only the selection
extract_occurrences(ctx) == <<ctx.selection>>

extract(ctx, variable_name) ==
    LET check == can_extract(ctx) IN
    IF ~check.ok THEN check
    ELSE LET trimmed     == Trim(selected_text(ctx))
             insert_pos  == find_declaration_insertion_point(
                                ctx.source, ctx.selection, ctx.language)
             indent      == indentation_at(ctx.source, insert_pos.line)
             declaration == generate_declaration(variable_name, trimmed,
                                                 ctx.language, indent)
             sorted_occurrences == sort_desc_by_start(extract_occurrences(ctx))
             replacements ==
                 [k \in 1..Len(sorted_occurrences) |->
                     TextEdit_replace(sorted_occurrences[k], variable_name)]
             edits == Append(replacements, TextEdit_insert(insert_pos, declaration))
         IN Ok(with_generated_code(
                 RefactorResult_new(edits,
                     <<"E","x","t","r","a","c","t"," ","'">> \o trimmed \o <<"'"," ","t","o"," ","v","a","r","i","a","b","l","e"," ","'">>
                         \o variable_name \o <<"'">>),
                 declaration))

\* ------------------------------------------------------------------------
\* safe_delete.rs
\* ------------------------------------------------------------------------

SafeDeleteAnalysis_safe(symbol_name, symbol_range) ==
    [can_delete |-> TRUE, symbol_name |-> symbol_name, symbol_range |-> symbol_range,
     usages |-> <<>>, warnings |-> <<>>]

unsafe_with_usages(symbol_name, symbol_range, usages) ==
    [can_delete |-> FALSE, symbol_name |-> symbol_name, symbol_range |-> symbol_range,
     usages |-> usages, warnings |-> <<>>]

Location(uri_, range) == [uri |-> uri_, range |-> range]

\* the longest run of word characters starting at index start (1-based);
\* the result is the index of its last character, start-1 for an empty run
WordRunEnd(text, start) ==
    CHOOSE e \in (start - 1)..Len(text) :
        /\ \A i \in start..e : IsWord(text[i])
        /\ (e = Len(text) \/ ~IsWord(text[e + 1]))

SymbolKeywords ==
    {<<"l","e","t">>, <<"c","o","n","s","t">>, <<"v","a","r">>, <<"f","u","n","c","t","i","o","n">>, <<"c","l","a","s","s">>, <<"d","e","f">>, <<"f","n">>, <<"f","u","n","c">>, <<"t","y","p","e">>}

\* index of the identifier that follows a leading declaration keyword and
\* whitespace, 0 when the optional keyword group of the pattern does not match
KeywordIdentStart(text) ==
    LET starts == {j \in 2..Len(text) :
                     /\ IsIdentStart(text[j])
                     /\ \E kw \in SymbolKeywords :
                           /\ StartsWith(text, kw)
                           /\ Len(kw) + 1 < j
                           /\ \A i \in (Len(kw) + 1)..(j - 1) : IsWs(text[i])}
    IN IF starts = {} THEN 0 ELSE CHOOSE j \in starts : TRUE

\* ^(?:(?:let|const|var|function|class|def|fn|func|type)\s+)?([a-zA-Z_][a-zA-Z0-9_]*)
\* and the fallback split at the first non-word character
extract_symbol_name(text) ==
    LET k == KeywordIdentStart(text) IN
    IF k > 0 THEN SubSeq(text, k, WordRunEnd(text, k))
    ELSE IF Len(text) > 0 /\ IsIdentStart(text[1]) THEN SubSeq(text, 1, WordRunEnd(text, 1))
    ELSE SubSeq(text, 1, WordRunEnd(text, 1))

\* regex \b at byte offset i of line (between line[i] and line[i+1], 1-based)
IsWordBoundary(line, i) ==
    (i >= 1 /\ IsWord(line[i])) # (i < Len(line) /\ IsWord(line[i + 1]))

\* \bname\b matches at byte offset p
WordMatchAt(line, name, p) ==
    /\ p + Len(name) <= Len(line)
    /\ SubSeq(line, p + 1, p + Len(name)) = name
    /\ IsWordBoundary(line, p)
    /\ IsWordBoundary(line, p + Len(name))

\* re.find_iter(line): start offsets of the leftmost non-overlapping matches
RECURSIVE word_matches_from(_, _, _)
word_matches_from(line, name, from) ==
    IF from + Len(name) > Len(line) THEN <<>>
    ELSE IF WordMatchAt(line, name, from)
      THEN <<from>> \o word_matches_from(line, name,
                                         from + (IF Len(name) = 0 THEN 1 ELSE Len(name)))
    ELSE word_matches_from(line, name, from + 1)

RECURSIVE find_usages_from(_, _, _, _)
find_usages_from(lines, uri_, name, line_num) ==
    IF line_num >= Len(lines) THEN <<>>
    ELSE LET ms == word_matches_from(lines[line_num + 1], name, 0)
         IN [k \in 1..Len(ms) |->
                Location(uri_, from_coords(line_num, ms[k],
                                           line_num, ms[k] + Len(name)))]
            \o find_usages_from(lines, uri_, name, line_num + 1)

find_usages(ctx, name) == find_usages_from(Lines(ctx.source), ctx.uri, name, 0)

\* usages.len() <= 1: a single match is taken to be the definition itself
single_usage_is_safe(usages) == Len(usages) <= 1

analyze(ctx) ==
    LET selected == Trim(selected_text(ctx)) IN
    IF selected = <<>> THEN InvalidSelection(<<"N","o"," ","s","y","m","b","o","l"," ","s","e","l","e","c","t","e","d">>)
    ELSE LET symbol_name == extract_symbol_name(selected) IN
      IF symbol_name = <<>> THEN InvalidSelection(<<"C","o","u","l","d"," ","n","o","t"," ","i","d","e","n","t","i","f","y"," ","s","y","m","b","o","l"," ","n","a","m","e">>)
      ELSE LET usages == find_usages(ctx, symbol_name) IN
        IF single_usage_is_safe(usages)
          THEN Ok(SafeDeleteAnalysis_safe(symbol_name, ctx.selection))
        ELSE LET other_usages ==
                     SelectSeq(usages, LAMBDA loc : ~overlaps(loc.range, ctx.selection))
             IN IF other_usages = <<>>
                  THEN Ok(SafeDeleteAnalysis_safe(symbol_name, ctx.selection))
                  ELSE Ok(unsafe_with_usages(symbol_name, ctx.selection, other_usages))

can_delete(ctx) ==
    LET analysis == analyze(ctx) IN
    IF ~analysis.ok THEN analysis ELSE Ok(analysis.value.can_delete)

\* the whole-line test of find_deletion_range
is_whole_line(trimmed, symbol_text) ==
    \/ trimmed = symbol_text
    \/ /\ EndsWithChar(trimmed, ";")
       /\ Trim(SubSeq(trimmed, 1, Len(trimmed) - 1)) = symbol_text

\* variant: the last line is not told apart
whole_line_range_always_next(lines, symbol_line) ==
    from_coords(symbol_line, 0, symbol_line + 1, 0)

\* the range of a single-line symbol that fills its line
whole_line_range(lines, symbol_line) ==
    IF symbol_line + 1 < Len(lines)
      THEN from_coords(symbol_line, 0, symbol_line + 1, 0)
      ELSE from_coords(symbol_line, 0, symbol_line, Len(lines[symbol_line + 1]))

\* variant: the bound of the following-line test is off by one
multi_line_range_off_by_one(lines, symbol_range) ==
    IF symbol_range.end.line < Len(lines)
      THEN from_coords(symbol_range.start.line, 0, symbol_range.end.line + 1, 0)
      ELSE symbol_range

\* the range of a multi-line symbol
multi_line_range(lines, symbol_range) ==
    IF symbol_range.end.line + 1 < Len(lines)
      THEN from_coords(symbol_range.start.line, 0, symbol_range.end.line + 1, 0)
      ELSE symbol_range

find_deletion_range(ctx, analysis) ==
    LET lines       == Lines(ctx.source)
        symbol_line == analysis.symbol_range.start.line
    IN IF symbol_line >= Len(lines) THEN analysis.symbol_range
       ELSE IF analysis.symbol_range.start.line = analysis.symbol_range.end.line
         THEN IF is_whole_line(Trim(lines[symbol_line + 1]),
                               text_in_range(ctx.source, analysis.symbol_range))
                THEN whole_line_range(lines, symbol_line)
                ELSE analysis.symbol_range
       ELSE multi_line_range(lines, analysis.symbol_range)

delete(ctx) ==
    LET analysis == analyze(ctx) IN
    IF ~analysis.ok THEN analysis
    ELSE IF ~analysis.value.can_delete THEN SymbolInUse(analysis.value.usages)
    ELSE LET delete_range == find_deletion_range(ctx, analysis.value)
         IN Ok(RefactorResult_new(<<TextEdit_delete(delete_range)>>,
                   <<"D","e","l","e","t","e"," ","u","n","u","s","e","d"," ","s","y","m","b","o","l"," ","'">> \o analysis.value.symbol_name \o <<"'">>))

\* ------------------------------------------------------------------------
\* extract_method (crate module outside the examined sources)
\* ------------------------------------------------------------------------

\* the precondition family of extract variable, over whole statements
extract_method_can_extract(ctx) ==
    LET selected == Trim(selected_text(ctx)) IN
    IF selected = <<>> THEN InvalidSelection(<<"N","o"," ","c","o","d","e"," ","s","e","l","e","c","t","e","d">>)
    ELSE IF ~has_balanced_delimiters(selected)
      THEN CannotExtract(<<"S","e","l","e","c","t","i","o","n"," ","i","s"," ","n","o","t"," ","a"," ","c","o","m","p","l","e","t","e"," ","b","l","o","c","k">>)
    ELSE Ok(TRUE)

\* the selected block becomes a call; the definition goes to the insertion
\* point with that line's indentation
extract_method_extract(ctx, method_name) ==
    LET check == extract_method_can_extract(ctx) IN
    IF ~check.ok THEN check
    ELSE LET block      == Trim(selected_text(ctx))
             insert_pos == find_declaration_insertion_point(
                               ctx.source, ctx.selection, ctx.language)
             indent     == indentation_at(ctx.source, insert_pos.line)
             definition == indent \o method_name \o <<"(",")"," ","{","\n">> \o indent
                               \o block \o <<"\n">> \o indent \o <<"}","\n">>
             edits == <<TextEdit_replace(ctx.selection, method_name \o <<"(",")">>),
                        TextEdit_insert(insert_pos, definition)>>
         IN Ok(with_generated_code(
                 RefactorResult_new(edits,
                     <<"E","x","t","r","a","c","t"," ","m","e","t","h","o","d"," ","'">> \o method_name \o <<"'">>),
                 definition))

\* ------------------------------------------------------------------------
\* RefactorAction, RefactorError display, RefactorEngine (lib.rs)
\* ------------------------------------------------------------------------

RefactorAction_available(id, title, kind) ==
    [id |-> id, title |-> title, kind |-> kind,
     is_available |-> TRUE, unavailable_reason |-> None]

RefactorAction_unavailable(id, title, kind, reason) ==
    [id |-> id, title |-> title, kind |-> kind,
     is_available |-> FALSE, unavailable_reason |-> Some(reason)]

\* Display of RefactorError (thiserror)
to_string(e) ==
    CASE e.kind = "InvalidSelection"   -> <<"I","n","v","a","l","i","d"," ","s","e","l","e","c","t","i","o","n",":"," ">> \o e.message
      [] e.kind = "CannotExtract"      -> <<"C","a","n","n","o","t"," ","e","x","t","r","a","c","t",":"," ">> \o e.message
      [] e.kind = "HasSideEffects"     -> <<"E","x","p","r","e","s","s","i","o","n"," ","h","a","s"," ","s","i","d","e"," ","e","f","f","e","c","t","s">>
      [] e.kind = "SymbolInUse"        -> <<"S","y","m","b","o","l"," ","i","s"," ","s","t","i","l","l"," ","i","n"," ","u","s","e">>
      [] e.kind = "NoExpression"       -> <<"N","o"," ","e","x","p","r","e","s","s","i","o","n"," ","a","t"," ","s","e","l","e","c","t","i","o","n">>
      [] e.kind = "MultipleStatements" -> <<"S","e","l","e","c","t","i","o","n"," ","s","p","a","n","s"," ","m","u","l","t","i","p","l","e"," ","s","t","a","t","e","m","e","n","t","s">>
      [] e.kind = "UnknownType"        -> <<"C","a","n","n","o","t"," ","d","e","t","e","r","m","i","n","e"," ","e","x","p","r","e","s","s","i","o","n"," ","t","y","p","e">>
      [] e.kind = "ControlFlowIssue"   -> <<"C","o","n","t","r","o","l"," ","f","l","o","w"," ","i","s","s","u","e",":"," ">> \o e.message
      [] e.kind = "ParseError"         -> <<"P","a","r","s","e"," ","e","r","r","o","r",":"," ">> \o e.message

\* one match of get_actions: Ok(true), Ok(false) or Err(e)
action_entry(check, id, title, kind) ==
    IF ~check.ok
      THEN <<RefactorAction_unavailable(id, title, kind, to_string(check))>>
    ELSE IF check.value THEN <<RefactorAction_available(id, title, kind)>>
    ELSE <<>>

\* variant: a refused transformation is left out of the list
get_actions_hide_unavailable(ctx) ==
    LET ev == can_extract(ctx)
        em == extract_method_can_extract(ctx)
    IN (IF ev.ok THEN action_entry(ev, <<"e","x","t","r","a","c","t","-","v","a","r","i","a","b","l","e">>, <<"E","x","t","r","a","c","t"," ","V","a","r","i","a","b","l","e">>,
                                   "ExtractVariable") ELSE <<>>)
       \o (IF em.ok THEN action_entry(em, <<"e","x","t","r","a","c","t","-","m","e","t","h","o","d">>, <<"E","x","t","r","a","c","t"," ","M","e","t","h","o","d">>,
                                      "ExtractMethod") ELSE <<>>)

get_actions(ctx) ==
    action_entry(can_extract(ctx), <<"e","x","t","r","a","c","t","-","v","a","r","i","a","b","l","e">>, <<"E","x","t","r","a","c","t"," ","V","a","r","i","a","b","l","e">>,
                 "ExtractVariable")
    \o action_entry(extract_method_can_extract(ctx), <<"e","x","t","r","a","c","t","-","m","e","t","h","o","d">>,
                    <<"E","x","t","r","a","c","t"," ","M","e","t","h","o","d">>, "ExtractMethod")

\* Option::unwrap_or
unwrap_or(opt, default) == IF opt = None THEN default ELSE opt[1]

execute(ctx, action_id, new_name) ==
    CASE action_id = <<"e","x","t","r","a","c","t","-","v","a","r","i","a","b","l","e">> ->
           extract(ctx, unwrap_or(new_name, <<"e","x","t","r","a","c","t","e","d">>))
      [] action_id = <<"e","x","t","r","a","c","t","-","m","e","t","h","o","d">> ->
           extract_method_extract(ctx, unwrap_or(new_name, <<"e","x","t","r","a","c","t","e","d","M","e","t","h","o","d">>))
      [] action_id = <<"s","a","f","e","-","d","e","l","e","t","e">> -> delete(ctx)
      [] OTHER -> InvalidSelection(<<"U","n","k","n","o","w","n"," ","a","c","t","i","o","n",":"," ">> \o action_id)

\* ------------------------------------------------------------------------
\* cpp_adapter.rs: syntax trees
\* ------------------------------------------------------------------------
\* A node is [kind, text, range, children]: text is the slice of the source
\* the node covers, children are the named children in order, each with the
\* field name the grammar gives it ("" when it has none).

get_text(node) == node.text

named_child_count(node) == Len(node.children)

\* Node::named_child(i), i zero-based
named_child(node, i) == node.children[i + 1].node

\* Node::child_by_field_name
child_by_field_name(node, name) ==
    LET at == {k \in 1..Len(node.children) : node.children[k].field = name}
    IN IF at = {} THEN None
       ELSE Some(node.children[CHOOSE k \in at : \A j \in at : k <= j].node)

node_to_range(node) ==
    Rng(Pos(node.range.start.line, node.range.start.column),
        Pos(node.range.end.line, node.range.end.column))

\* direct children first, then the subtrees in order
RECURSIVE find_first_named_of_kinds(_, _)
RECURSIVE find_first_in_subtrees(_, _, _)
find_first_in_subtrees(node, kinds, i) ==
    IF i >= named_child_count(node) THEN None
    ELSE LET found == find_first_named_of_kinds(named_child(node, i), kinds)
         IN IF found # None THEN found
            ELSE find_first_in_subtrees(node, kinds, i + 1)

find_first_named_of_kinds(node, kinds) ==
    LET direct == {k \in 1..Len(node.children) : node.children[k].node.kind \in kinds}
    IN IF direct # {}
         THEN Some(node.children[CHOOSE k \in direct : \A j \in direct : k <= j].node)
       ELSE find_first_in_subtrees(node, kinds, 0)

RECURSIVE find_identifier_in_declarator(_)
RECURSIVE find_identifier_in_children(_, _)
find_identifier_in_children(node, i) ==
    IF i >= named_child_count(node) THEN None
    ELSE LET id == find_identifier_in_declarator(named_child(node, i))
         IN IF id # None THEN id ELSE find_identifier_in_children(node, i + 1)

find_identifier_in_declarator(node) ==
    IF node.kind = "identifier" THEN Some(node)
    ELSE find_identifier_in_children(node, 0)

\* str::split_whitespace
RECURSIVE split_whitespace_from(_, _, _)
split_whitespace_from(text, i, tok) ==
    IF i > Len(text) THEN (IF tok = <<>> THEN <<>> ELSE <<tok>>)
    ELSE IF IsWs(text[i])
      THEN (IF tok = <<>> THEN <<>> ELSE <<tok>>) \o split_whitespace_from(text, i + 1, <<>>)
    ELSE split_whitespace_from(text, i + 1, Append(tok, text[i]))

split_whitespace(text) == split_whitespace_from(text, 1, <<>>)

\* chars().take_while(|c| c.is_alphanumeric() || *c == '_')
RECURSIVE take_while_word(_)
take_while_word(tok) ==
    IF tok = <<>> \/ ~IsWord(Head(tok)) THEN <<>>
    ELSE <<Head(tok)>> \o take_while_word(Tail(tok))

\* first loop of extract_decl_name: the token after the keyword
RECURSIVE decl_name_after_keyword(_, _, _)
decl_name_after_keyword(toks, i, keyword) ==
    IF i > Len(toks) THEN None
    ELSE IF toks[i] = keyword
      THEN IF i + 1 <= Len(toks)
             THEN LET clean == take_while_word(toks[i + 1])
                  IN IF clean # <<>> THEN Some(clean)
                     ELSE decl_name_after_keyword(toks, i + 2, keyword)
           ELSE None
    ELSE decl_name_after_keyword(toks, i + 1, keyword)

DeclKeywords ==
    {<<"c","l","a","s","s">>, <<"s","t","r","u","c","t">>, <<"p","u","b","l","i","c">>, <<"p","r","i","v","a","t","e">>, <<"p","r","o","t","e","c","t","e","d">>, <<"n","a","m","e","s","p","a","c","e">>}

\* second loop of extract_decl_name: the first identifier-like token
RECURSIVE decl_name_first_identifier(_, _)
decl_name_first_identifier(toks, i) ==
    IF i > Len(toks) THEN None
    ELSE LET clean == take_while_word(toks[i])
         IN IF clean = <<>> \/ clean \in DeclKeywords
              THEN decl_name_first_identifier(toks, i + 1)
            ELSE Some(clean)

extract_decl_name(text, keyword) ==
    LET toks  == split_whitespace(text)
        after == decl_name_after_keyword(toks, 1, keyword)
    IN IF after # None THEN after ELSE decl_name_first_identifier(toks, 1)

\* ------------------------------------------------------------------------
\* cpp_adapter.rs: analysis context and symbols
\* ------------------------------------------------------------------------

AnalysisResult_default == [symbols |-> <<>>, imports |-> <<>>, calls |-> <<>>]

\* crate::adapter::make_location
make_location(doc_uri, range, selection_range) ==
    [uri |-> doc_uri, range |-> range, selection_range |-> selection_range]

\* SymbolBuilder::new(..)...build(): the id is the next of an incrementing
\* sequence; SymbolId(0) stands for no symbol
build_symbol(id, name, kind, location, exported, visibility, qualified, parent) ==
    [id |-> id, name |-> name, kind |-> kind, location |-> location,
     exported |-> exported, visibility |-> visibility,
     qualified_name |-> qualified, parent |-> parent]

\* AnalysisContext { uri, source, result, scope_stack } of one analyze call,
\* with the id the next symbol gets
new_context_keeps_scope(doc_uri, first_id) ==
    [uri |-> doc_uri, result |-> AnalysisResult_default,
     scope_stack |-> IF first_id > 1
                       THEN <<[symbol_id |-> first_id - 1, name |-> <<"s","t","a","l","e">>]>>
                     ELSE <<>>,
     next_id |-> first_id]

new_context(doc_uri, first_id) ==
    [uri |-> doc_uri, result |-> AnalysisResult_default, scope_stack |-> <<>>,
     next_id |-> first_id]

current_scope(ctx) ==
    IF ctx.scope_stack = <<>> THEN None
    ELSE Some(ctx.scope_stack[Len(ctx.scope_stack)])

\* names.join("::")
RECURSIVE join_scope_names(_)
join_scope_names(stack) ==
    IF stack = <<>> THEN <<>>
    ELSE IF Len(stack) = 1 THEN stack[1].name
    ELSE stack[1].name \o <<":",":">> \o join_scope_names(Tail(stack))

qualified_name(ctx, name) ==
    IF ctx.scope_stack = <<>> THEN name
    ELSE join_scope_names(ctx.scope_stack) \o <<":",":">> \o name

\* ctx.result.symbols.push(symbol)
push_symbol(ctx, symbol) ==
    [ctx EXCEPT !.result.symbols = Append(@, symbol), !.next_id = @ + 1]

\* ctx.scope_stack.push(ScopeInfo { symbol_id, name })
push_scope(ctx, symbol_id, name) ==
    [ctx EXCEPT !.scope_stack = Append(@, [symbol_id |-> symbol_id, name |-> name])]

\* ctx.scope_stack.pop()
pop_scope(ctx) ==
    [ctx EXCEPT !.scope_stack = IF @ = <<>> THEN <<>> ELSE SubSeq(@, 1, Len(@) - 1)]

\* current_scope().map(|s| s.symbol_id).unwrap_or(SymbolId(0))
parent_id(ctx) ==
    IF current_scope(ctx) = None THEN 0 ELSE current_scope(ctx)[1].symbol_id

\* str::to_lowercase on the letters of the access keywords
ToLowerChar(c) ==
    CASE c = "P" -> "p" [] c = "U" -> "u" [] c = "B" -> "b" [] c = "L" -> "l"
      [] c = "I" -> "i" [] c = "C" -> "c" [] c = "R" -> "r" [] c = "V" -> "v"
      [] c = "A" -> "a" [] c = "T" -> "t" [] c = "E" -> "e" [] c = "O" -> "o"
      [] c = "D" -> "d" [] OTHER -> c

to_lowercase(text) == [k \in 1..Len(text) |-> ToLowerChar(text[k])]

\* str::trim_end_matches(':')
RECURSIVE trim_end_colons(_)
trim_end_colons(text) ==
    IF text # <<>> /\ text[Len(text)] = ":"
      THEN trim_end_colons(SubSeq(text, 1, Len(text) - 1))
    ELSE text

\* the visibility an access_specifier node sets
access_visibility(text) ==
    LET word == Trim(trim_end_colons(to_lowercase(Trim(text)))) IN
    IF word = <<"p","u","b","l","i","c">> THEN "Public"
    ELSE IF word = <<"p","r","o","t","e","c","t","e","d">> THEN "Protected"
    ELSE "Private"

\* variant: members of a struct start private as well
default_visibility_private(kind) == "Private"

\* struct members start public, class members start private
default_visibility(kind) ==
    IF kind = "struct_specifier" THEN "Public" ELSE "Private"

analyze_include(node, ctx) ==
    LET text == get_text(node)
        at   == {k \in 0..(Len(text) - 8) : SubSeq(text, k + 1, k + 8) = <<"#","i","n","c","l","u","d","e">>}
    IN IF at = {} THEN ctx
       ELSE LET idx  == CHOOSE k \in at : \A j \in at : k <= j
                rest == Trim(SubSeq(text, idx + 9, Len(text)))
            IN IF rest = <<>> THEN ctx
               ELSE [ctx EXCEPT !.result.imports =
                        Append(@, [module_path |-> rest,
                                   items |-> <<[name |-> rest, alias |-> None,
                                                is_type |-> FALSE]>>,
                                   is_type_only |-> FALSE,
                                   location |-> node_to_range(node)])]

analyze_call(node, ctx) ==
    LET function == child_by_field_name(node, "function") IN
    IF function = None THEN ctx
    ELSE LET text == get_text(function[1]) IN
         [ctx EXCEPT !.result.calls =
             Append(@, [callee_name |-> text,
                        qualified_name |->
                            IF Contains(text, <<":",":">>) \/ Contains(text, <<".">>)
                              THEN Some(text) ELSE None,
                        location |-> node_to_range(node),
                        is_constructor |-> FALSE])]

\* the name of a class or struct node: the name node's text, else the
\* fallback parse of the node's text
class_name_node(node) ==
    LET by_field == child_by_field_name(node, "name") IN
    IF by_field # None THEN by_field
    ELSE find_first_named_of_kinds(node, {"type_identifier", "identifier"})

class_name(node, keyword) ==
    LET name_node == class_name_node(node) IN
    IF name_node # None THEN get_text(name_node[1])
    ELSE LET fallback == extract_decl_name(get_text(node), keyword)
         IN IF fallback = None THEN <<>> ELSE fallback[1]

class_name_range(node) ==
    LET name_node == class_name_node(node) IN
    IF name_node # None THEN node_to_range(name_node[1]) ELSE node_to_range(node)

analyze_class_decl(node, ctx) ==
    LET keyword == IF node.kind = "struct_declaration" THEN <<"s","t","r","u","c","t">> ELSE <<"c","l","a","s","s">>
        name    == class_name(node, keyword)
    IN IF name = <<>> THEN ctx
       ELSE push_symbol(ctx,
                build_symbol(ctx.next_id, name,
                    IF node.kind = "struct_declaration" THEN "Struct" ELSE "Class",
                    make_location(ctx.uri, node_to_range(node), class_name_range(node)),
                    TRUE, "Public", qualified_name(ctx, name), None))

analyze_field_with_visibility(node, ctx, visibility) ==
    LET name_node == find_first_named_of_kinds(node, {"field_identifier", "identifier"})
    IN IF name_node = None THEN ctx
       ELSE LET name == get_text(name_node[1]) IN
            push_symbol(ctx,
                build_symbol(ctx.next_id, name, "Field",
                    make_location(ctx.uri, node_to_range(node),
                                  node_to_range(name_node[1])),
                    visibility = "Public", visibility,
                    qualified_name(ctx, name), Some(parent_id(ctx))))

RECURSIVE analyze_node(_, _)
RECURSIVE analyze_named_children(_, _, _)
RECURSIVE analyze_wrapped_types(_, _, _)
RECURSIVE analyze_function(_, _)
RECURSIVE analyze_class_or_struct(_, _)
RECURSIVE analyze_class_body(_, _, _)
RECURSIVE analyze_class_body_children(_, _, _, _)
RECURSIVE analyze_field_declaration_list(_, _, _)
RECURSIVE analyze_members(_, _, _, _)
RECURSIVE analyze_method_with_visibility(_, _, _)
RECURSIVE analyze_namespace(_, _)

\* the body of a declaration is analysed inside the declaration's scope
analyze_body_in_scope(node, ctx, symbol_id, name) ==
    LET body == child_by_field_name(node, "body") IN
    IF body = None THEN ctx
    ELSE pop_scope(analyze_node(body[1], push_scope(ctx, symbol_id, name)))

\* for i in 0..node.named_child_count(): analyze_node(child)
analyze_named_children(node, ctx, i) ==
    IF i >= named_child_count(node) THEN ctx
    ELSE analyze_named_children(node, analyze_node(named_child(node, i), ctx), i + 1)

\* type_definition | declaration: only the class and struct children
analyze_wrapped_types(node, ctx, i) ==
    IF i >= named_child_count(node) THEN ctx
    ELSE LET ch   == named_child(node, i)
             ctx1 == IF ch.kind \in {"class_specifier", "struct_specifier"}
                       THEN analyze_class_or_struct(ch, ctx) ELSE ctx
             ctx2 == IF ch.kind \in {"class_declaration", "struct_declaration"}
                       THEN analyze_class_decl(ch, ctx1) ELSE ctx1
         IN analyze_wrapped_types(node, ctx2, i + 1)

analyze_node(node, ctx) ==
    CASE node.kind = "preproc_include" -> analyze_include(node, ctx)
      [] node.kind = "function_definition" -> analyze_function(node, ctx)
      [] node.kind \in {"class_specifier", "struct_specifier"} ->
           analyze_class_or_struct(node, ctx)
      [] node.kind \in {"class_declaration", "struct_declaration"} ->
           analyze_class_decl(node, ctx)
      [] node.kind \in {"type_definition", "declaration"} ->
           analyze_wrapped_types(node, ctx, 0)
      [] node.kind = "namespace_definition" -> analyze_namespace(node, ctx)
      [] node.kind = "call_expression" -> analyze_call(node, ctx)
      [] OTHER -> analyze_named_children(node, ctx, 0)

analyze_function(node, ctx) ==
    LET declarator == child_by_field_name(node, "declarator")
        name_node  == IF declarator = None THEN None
                      ELSE find_identifier_in_declarator(declarator[1])
    IN IF name_node = None THEN ctx
       ELSE LET name   == get_text(name_node[1])
                symbol == build_symbol(ctx.next_id, name, "Function",
                              make_location(ctx.uri, node_to_range(node),
                                            node_to_range(name_node[1])),
                              TRUE, "Public", qualified_name(ctx, name), None)
            IN analyze_body_in_scope(node, push_symbol(ctx, symbol), symbol.id, name)

analyze_class_or_struct(node, ctx) ==
    LET keyword == IF node.kind = "struct_specifier" THEN <<"s","t","r","u","c","t">> ELSE <<"c","l","a","s","s">>
        name    == class_name(node, keyword)
    IN IF name = <<>> THEN ctx
       ELSE LET symbol == build_symbol(ctx.next_id, name,
                              IF node.kind = "struct_specifier" THEN "Struct" ELSE "Class",
                              make_location(ctx.uri, node_to_range(node),
                                            class_name_range(node)),
                              TRUE, "Public", qualified_name(ctx, name), None)
                ctx1   == push_symbol(ctx, symbol)
                body   == child_by_field_name(node, "body")
            IN IF body = None THEN ctx1
               ELSE pop_scope(analyze_class_body(body[1],
                                  push_scope(ctx1, symbol.id, name),
                                  default_visibility(node.kind)))

analyze_class_body_children(node, ctx, visibility, i) ==
    IF i >= named_child_count(node) THEN ctx
    ELSE LET child == named_child(node, i)
             ctx1  ==
                 CASE child.kind = "field_declaration_list" ->
                        analyze_field_declaration_list(child, ctx, visibility)
                   [] child.kind = "field_declaration" ->
                        analyze_field_with_visibility(child, ctx, visibility)
                   [] child.kind = "function_definition" ->
                        analyze_method_with_visibility(child, ctx, visibility)
                   [] OTHER -> analyze_node(child, ctx)
         IN analyze_class_body_children(node, ctx1, visibility, i + 1)

analyze_class_body(node, ctx, visibility) ==
    IF node.kind = "field_declaration_list"
      THEN analyze_field_declaration_list(node, ctx, visibility)
    ELSE analyze_class_body_children(node, ctx, visibility, 0)

\* the loop of analyze_field_declaration_list from member i on
analyze_members(node, ctx, current_visibility, i) ==
    IF i >= named_child_count(node) THEN ctx
    ELSE LET child == named_child(node, i) IN
         CASE child.kind = "access_specifier" ->
                analyze_members(node, ctx, access_visibility(get_text(child)), i + 1)
           [] child.kind = "field_declaration" ->
                analyze_members(node,
                    analyze_field_with_visibility(child, ctx, current_visibility),
                    current_visibility, i + 1)
           [] child.kind = "function_definition" ->
                analyze_members(node,
                    analyze_method_with_visibility(child, ctx, current_visibility),
                    current_visibility, i + 1)
           [] OTHER ->
                analyze_members(node, analyze_node(child, ctx), current_visibility, i + 1)

analyze_field_declaration_list(node, ctx, visibility) ==
    analyze_members(node, ctx, visibility, 0)

analyze_method_with_visibility(node, ctx, visibility) ==
    LET declarator == child_by_field_name(node, "declarator")
        name_node  == IF declarator = None THEN None
                      ELSE find_first_named_of_kinds(declarator[1],
                               {"field_identifier", "identifier"})
    IN IF name_node = None THEN ctx
       ELSE LET name   == get_text(name_node[1])
                symbol == build_symbol(ctx.next_id, name, "Method",
                              make_location(ctx.uri, node_to_range(node),
                                            node_to_range(name_node[1])),
                              visibility = "Public", visibility,
                              qualified_name(ctx, name), Some(parent_id(ctx)))
            IN analyze_body_in_scope(node, push_symbol(ctx, symbol), symbol.id, name)

analyze_namespace(node, ctx) ==
    LET by_field  == child_by_field_name(node, "name")
        name_node == IF by_field # None THEN by_field
                     ELSE find_first_named_of_kinds(node,
                              {"namespace_identifier", "identifier"})
    IN IF name_node = None THEN ctx
       ELSE LET name   == get_text(name_node[1])
                symbol == build_symbol(ctx.next_id, name, "Namespace",
                              make_location(ctx.uri, node_to_range(node),
                                            node_to_range(name_node[1])),
                              TRUE, "Public", qualified_name(ctx, name), None)
            IN analyze_body_in_scope(node, push_symbol(ctx, symbol), symbol.id, name)

\* Parser::parse(source, None): the tree of the source, or no tree
parser_parse(doc) == IF doc.outcome = "tree" THEN Some(doc.root) ELSE None

\* variant: a call that got no tree returns an error
analyze_with_tree_or_error(doc_uri, tree, first_id) ==
    IF tree = None
      THEN [new_context(doc_uri, first_id) EXCEPT
                !.result = [symbols |-> <<>>, imports |-> <<>>, calls |-> <<>>,
                            error |-> "ParseError"]]
    ELSE analyze_node(tree[1], new_context(doc_uri, first_id))

\* analyze once parse has returned: the empty result without a tree, else
\* the context after the traversal from the root
analyze_with_tree(doc_uri, tree, first_id) ==
    IF tree = None THEN new_context(doc_uri, first_id)
    ELSE analyze_node(tree[1], new_context(doc_uri, first_id))

\* std::sync::Mutex<Parser>: lock() waits until no thread holds the handle
NoThread == "none"

\* variant: the handle is handed out while another thread holds it
lock_available_always(owner) == TRUE

lock_available(owner) == owner = NoThread

\* what analyze returns, with the scope stack its context ends with
Returned(ctx) == [result |-> ctx.result, scope_stack |-> ctx.scope_stack]

\* ------------------------------------------------------------------------
\* unused.rs: UnusedDetector
\* ------------------------------------------------------------------------

\* UnusedDetector::new: ignore_patterns
IgnorePatterns == {<<"_">>}

SpecialNames ==
    {<<"s","e","l","f">>, <<"c","l","s">>, <<"t","h","i","s">>, <<"s","u","p","e","r">>, <<"m","a","i","n">>, <<"i","n","i","t">>, <<"_","_","i","n","i","t","_","_">>, <<"n","e","w">>}

should_ignore(name) ==
    \/ \E pattern \in IgnorePatterns : StartsWith(name, pattern)
    \/ name \in SpecialNames

symbol_kind_to_unused_kind(kind) ==
    CASE kind = "Variable" -> Some("Variable")
      [] kind \in {"Function", "Method"} -> Some("Function")
      [] kind \in {"Class", "Struct"} -> Some("Class")
      [] kind = "Constant" -> Some("Constant")
      [] kind = "TypeParameter" -> Some("TypeAlias")
      [] kind = "Module" -> Some("Import")
      [] OTHER -> None

\* HashMap::insert
MapInsert(map, key, value) ==
    [k \in DOMAIN map \cup {key} |-> IF k = key THEN value ELSE map[k]]

\* HashMap::remove
MapRemove(map, key) == [k \in DOMAIN map \ {key} |-> map[k]]

\* defined_symbols: name -> (range, kind, is_used)
register_definition(defined_symbols, name, range, kind) ==
    IF should_ignore(name) THEN defined_symbols
    ELSE LET unused_kind == symbol_kind_to_unused_kind(kind) IN
         IF unused_kind = None THEN defined_symbols
         ELSE MapInsert(defined_symbols, name,
                        [range |-> range, kind |-> unused_kind[1], used |-> FALSE])

mark_used(defined_symbols, name) ==
    IF name \in DOMAIN defined_symbols
      THEN [defined_symbols EXCEPT ![name].used = TRUE]
      ELSE defined_symbols

\* each symbol, then its children
RECURSIVE collect_definitions(_, _)
collect_definitions(defined_symbols, syms) ==
    IF syms = <<>> THEN defined_symbols
    ELSE LET symbol == Head(syms)
             own    == register_definition(defined_symbols, symbol.name,
                                           symbol.selection_range, symbol.kind)
         IN collect_definitions(collect_definitions(own, symbol.children), Tail(syms))

\* source.split(|c| !c.is_alphanumeric() && c != '_'): the pieces between
\* the other characters, empty pieces included
RECURSIVE split_words_from(_, _, _)
split_words_from(s, i, cur) ==
    IF i > Len(s) THEN <<cur>>
    ELSE IF IsWord(s[i]) THEN split_words_from(s, i + 1, Append(cur, s[i]))
    ELSE <<cur>> \o split_words_from(s, i + 1, <<>>)

split_words(s) == split_words_from(s, 1, <<>>)

\* source.matches(word).count(): non-overlapping occurrences of the substring
matches_count(src, word) == Len(find_iter_literal(src, word, 0))

RECURSIVE collect_references_from(_, _, _, _)
collect_references_from(defined_symbols, src, words, i) ==
    IF i > Len(words) THEN defined_symbols
    ELSE LET word == words[i]
             next == IF /\ word # <<>>
                        /\ ~should_ignore(word)
                        /\ word \in DOMAIN defined_symbols
                        /\ matches_count(src, word) > 1
                       THEN mark_used(defined_symbols, word)
                     ELSE defined_symbols
         IN collect_references_from(next, src, words, i + 1)

collect_references(defined_symbols, src) ==
    collect_references_from(defined_symbols, src, split_words(src), 1)

fix_action(kind, name) ==
    CASE kind \in {"Variable", "Parameter"} -> Some(<<"P","r","e","f","i","x"," ","w","i","t","h"," ","u","n","d","e","r","s","c","o","r","e",":"," ","_">> \o name)
      [] kind = "Import" -> Some(<<"R","e","m","o","v","e"," ","u","n","u","s","e","d"," ","i","m","p","o","r","t">>)
      [] kind \in {"Function", "Class"} ->
           Some(<<"R","e","m","o","v","e"," ","o","r"," ","e","x","p","o","r","t"," ","i","f"," ","i","n","t","e","n","d","e","d"," ","a","s"," ","p","u","b","l","i","c"," ","A","P","I">>)
      [] OTHER -> None

UnusedItem(name, entry) ==
    [kind |-> entry.kind, name |-> name, range |-> entry.range,
     can_remove |-> entry.kind \in {"Variable", "Import", "Constant"},
     fix_action |-> fix_action(entry.kind, name)]

\* sort_by line, then column: stable
RECURSIVE insert_by_start(_, _)
insert_by_start(sorted, item) ==
    IF sorted = <<>> THEN <<item>>
    ELSE IF PosLT(item.range.start, Head(sorted).range.start) THEN <<item>> \o sorted
    ELSE <<Head(sorted)>> \o insert_by_start(Tail(sorted), item)

RECURSIVE sort_by_start(_)
sort_by_start(items) ==
    IF items = <<>> THEN <<>>
    ELSE insert_by_start(sort_by_start(SubSeq(items, 1, Len(items) - 1)),
                         items[Len(items)])

\* the orders in which a HashMap may hand out the keys
KeyOrders(keys) ==
    {order \in [1..Cardinality(keys) -> keys] :
         \A i, j \in 1..Cardinality(keys) : i # j => order[i] # order[j]}

\* the unused entries in the map's iteration order, then sorted
report_unused(defined_symbols, order) ==
    LET names == SelectSeq(order, LAMBDA name : ~defined_symbols[name].used)
    IN sort_by_start([k \in 1..Len(names) |-> UnusedItem(names[k], defined_symbols[names[k]])])

\* clear, collect_definitions, collect_references; self.references is empty
\* after clear, so the loop over it marks nothing
unused_definitions(syms, src) ==
    collect_references(collect_definitions(EmptyMap, syms), src)

UnusedDetector_analyze(syms, src, order) ==
    report_unused(unused_definitions(syms, src), order)

\* ------------------------------------------------------------------------
\* comments.rs: CommentScanner and TodoIndex
\* ------------------------------------------------------------------------

TodoKind_priority(kind) ==
    CASE kind = "Bug" -> 5
      [] kind = "Fixme" -> 4
      [] kind = "Xxx" -> 3
      [] kind = "Todo" -> 2
      [] kind = "Optimize" -> 2
      [] kind = "Hack" -> 1
      [] kind = "Note" -> 0
      [] kind = "Custom" -> 1

\* the cap of (kind.priority() + 1).min(5)
MaxPriority == 5

BuiltinKeywords ==
    {<<"T","O","D","O">>, <<"F","I","X","M","E">>, <<"H","A","C","K">>, <<"X","X","X">>, <<"N","O","T","E">>, <<"B","U","G">>, <<"O","P","T","I","M","I","Z","E">>}

BuiltinKind(keyword) ==
    CASE keyword = <<"T","O","D","O">> -> "Todo"
      [] keyword = <<"F","I","X","M","E">> -> "Fixme"
      [] keyword = <<"H","A","C","K">> -> "Hack"
      [] keyword = <<"X","X","X">> -> "Xxx"
      [] keyword = <<"N","O","T","E">> -> "Note"
      [] keyword = <<"B","U","G">> -> "Bug"
      [] keyword = <<"O","P","T","I","M","I","Z","E">> -> "Optimize"

LowerLetters ==
    <<"a","b","c","d","e","f","g","h","i","j","k","l","m",
      "n","o","p","q","r","s","t","u","v","w","x","y","z">>

UpperLetters ==
    <<"A","B","C","D","E","F","G","H","I","J","K","L","M",
      "N","O","P","Q","R","S","T","U","V","W","X","Y","Z">>

ToUpperChar(c) ==
    IF \E k \in 1..Len(LowerLetters) : LowerLetters[k] = c
      THEN UpperLetters[CHOOSE k \in 1..Len(LowerLetters) : LowerLetters[k] = c]
      ELSE c

\* str::to_uppercase
to_uppercase(text) == [k \in 1..Len(text) |-> ToUpperChar(text[k])]

RECURSIVE insert_custom_patterns(_, _)
insert_custom_patterns(kind_map, patterns) ==
    IF patterns = <<>> THEN kind_map
    ELSE insert_custom_patterns(MapInsert(kind_map, to_uppercase(Head(patterns)), "Custom"),
                                Tail(patterns))

\* CommentScanner::new: the kind_map; the pattern is built from its keys
CommentScanner_new(custom_patterns) ==
    insert_custom_patterns([keyword \in BuiltinKeywords |-> BuiltinKind(keyword)],
                           custom_patterns)

\* regex class [:\s]
IsSeparator(c) == c = ":" \/ IsWs(c)

\* the rest after the longest run of [:\s]
RECURSIVE skip_separators(_)
skip_separators(rest) ==
    IF rest # <<>> /\ IsSeparator(Head(rest)) THEN skip_separators(Tail(rest)) ELSE rest

\* [:\s]+(.*)$ on the rest of the line: the groups, or None
match_separator(rest, urgent, author, end) ==
    IF rest = <<>> \/ ~IsSeparator(rest[1]) THEN None
    ELSE Some([urgent |-> urgent, author |-> author,
               text |-> Trim(skip_separators(rest)), end |-> end])

\* index of the first ")" at or after index from, 0 when there is none
first_close(line, from) ==
    IF \E j \in from..Len(line) : line[j] = ")"
      THEN CHOOSE j \in from..Len(line) :
               line[j] = ")" /\ \A k \in from..(j - 1) : line[k] # ")"
      ELSE 0

\* (?:\(([^)]+)\))? and what follows, the "(" at index p2 + 1
match_author_at(line, urgent, p2, close) ==
    IF p2 < Len(line) /\ line[p2 + 1] = "(" /\ close >= p2 + 3
      THEN match_separator(SubSeq(line, close + 1, Len(line)), urgent,
                           Some(SubSeq(line, p2 + 2, close - 1)), Len(line))
      ELSE match_separator(SubSeq(line, p2 + 1, Len(line)), urgent, None, Len(line))

match_author(line, urgent, p2) ==
    match_author_at(line, urgent, p2, first_close(line, p2 + 2))

\* (!)?(?:\(([^)]+)\))?[:\s]+(.*)$ from byte offset p of the line: the
\* groups, or None. Each optional group is taken when it can be: without it
\* the next character ("!" or "(") is no separator.
match_tail(line, p) ==
    IF p < Len(line) /\ line[p + 1] = "!"
      THEN match_author(line, TRUE, p + 1)
      ELSE match_author(line, FALSE, p)

\* the keyword of the map that stands as a whole word at offset p and is
\* followed by a matching tail
KeywordsAt(kind_map, line, p) ==
    {keyword \in DOMAIN kind_map :
        WordMatchAt(line, keyword, p) /\ match_tail(line, p + Len(keyword)) # None}

capture_groups(keyword, p, tail) ==
    Some([keyword |-> keyword, start |-> p, urgent |-> tail.urgent,
          author |-> tail.author, text |-> tail.text, end |-> tail.end])

capture_keyword(line, p, keyword) ==
    capture_groups(keyword, p, match_tail(line, p + Len(keyword))[1])

capture_at(kind_map, line, p) ==
    capture_keyword(line, p, CHOOSE k \in KeywordsAt(kind_map, line, p) : TRUE)

first_of(starts) == CHOOSE q \in starts : \A r \in starts : q <= r

\* Regex::captures: the leftmost match. The optional comment prefix and \s*
\* before the keyword never keep a match from starting, so the match is at the
\* first keyword that has a matching tail.
captures_from(kind_map, line, starts) ==
    IF starts = {} THEN None ELSE capture_at(kind_map, line, first_of(starts))

captures(kind_map, line) ==
    captures_from(kind_map, line,
                  {p \in 0..Len(line) : KeywordsAt(kind_map, line, p) # {}})

\* variant: the urgent priority is not capped
item_priority_unclamped(kind, urgent) ==
    IF urgent THEN TodoKind_priority(kind) + 1 ELSE TodoKind_priority(kind)

item_priority(kind, urgent) ==
    IF urgent THEN Min(TodoKind_priority(kind) + 1, MaxPriority)
    ELSE TodoKind_priority(kind)

\* the TodoItem of one match
todo_item(kind, line_idx, groups, priority) ==
    [kind     |-> kind,
     text     |-> groups.text,
     range    |-> from_coords(line_idx, groups.start, line_idx, groups.end),
     author   |-> groups.author,
     priority |-> priority,
     line     |-> line_idx + 1]

todo_item_of_kind(kind, line_idx, groups) ==
    todo_item(kind, line_idx, groups, item_priority(kind, groups.urgent))

\* the items of one line: one when the pattern matches and the keyword is in
\* the map
line_items(kind_map, line_idx, found) ==
    IF found = None THEN <<>>
    ELSE IF to_uppercase(found[1].keyword) \notin DOMAIN kind_map THEN <<>>
    ELSE <<todo_item_of_kind(kind_map[to_uppercase(found[1].keyword)], line_idx, found[1])>>

RECURSIVE scan_lines(_, _, _)
scan_lines(kind_map, lines, line_idx) ==
    IF line_idx >= Len(lines) THEN <<>>
    ELSE line_items(kind_map, line_idx, captures(kind_map, lines[line_idx + 1]))
         \o scan_lines(kind_map, lines, line_idx + 1)

\* CommentScanner::scan_file
scan_file(kind_map, src) == scan_lines(kind_map, Lines(src), 0)

\* the two branches of index_document
store_todos(by_document, uri_, todos) ==
    IF todos = <<>> THEN MapRemove(by_document, uri_)
    ELSE MapInsert(by_document, uri_, todos)

\* TodoIndex::index_document with the default scanner; variant that stores
\* the empty list too
index_document_keep_empty(by_document, uri_, src) ==
    MapInsert(by_document, uri_, scan_file(CommentScanner_new(<<>>), src))

index_document(by_document, uri_, src) ==
    store_todos(by_document, uri_, scan_file(CommentScanner_new(<<>>), src))

\* TodoIndex::remove_document
remove_document(by_document, uri_) == MapRemove(by_document, uri_)

get_document_todos(by_document, uri_) ==
    IF uri_ \in DOMAIN by_document THEN by_document[uri_] ELSE <<>>

RECURSIVE SumOver(_, _)
SumOver(f, keys) ==
    IF keys = {} THEN 0
    ELSE LET k == CHOOSE x \in keys : TRUE IN f[k] + SumOver(f, keys \ {k})

todo_count(by_document) ==
    SumOver([u \in DOMAIN by_document |-> Len(by_document[u])], DOMAIN by_document)

\* ------------------------------------------------------------------------
\* api.rs: LanguageService
\* ------------------------------------------------------------------------

\* logos_core::Document: uri, language id and text
Document_new(uri_, language_id, content) ==
    [uri |-> uri_, language_id |-> language_id, content |-> content]

\* Document::set_content: the text is replaced as a whole
Document_set_content(doc, content) == [doc EXCEPT !.content = content]

\* logos_parser::LanguageId::from_str
LanguageId_from_str(language_id) ==
    CASE language_id = "javascript" -> Some("JavaScript")
      [] language_id = "python" -> Some("Python")
      [] OTHER -> None

\* SymbolIndex::new: no document
SymbolIndex_new == EmptyMap

\* SymbolIndex::remove_document
SymbolIndex_remove_document(symbol_index, uri_) == MapRemove(symbol_index, uri_)

\* SymbolIndex::get_document_symbols
SymbolIndex_get_document_symbols(symbol_index, uri_) ==
    IF uri_ \in DOMAIN symbol_index THEN symbol_index[uri_] ELSE <<>>

\* open_document: the documents after the call
open_document(docs, uri_, content, language_id) ==
    MapInsert(docs, uri_, Document_new(uri_, language_id, content))

\* variant: an update of a uri that is not open opens it
update_document_upsert(docs, uri_, content) ==
    IF uri_ \in DOMAIN docs
      THEN [docs EXCEPT ![uri_] = Document_set_content(@, content)]
      ELSE MapInsert(docs, uri_, Document_new(uri_, "javascript", content))

\* update_document: the documents after the call
update_document(docs, uri_, content) ==
    IF uri_ \in DOMAIN docs
      THEN [docs EXCEPT ![uri_] = Document_set_content(@, content)]
      ELSE docs

\* str::cmp on the uris of the model, ascending
UriOrder == <<"a.js", "b.js">>

TodoKinds == {"Todo", "Fixme", "Hack", "Xxx", "Note", "Bug", "Optimize", "Custom"}

RECURSIVE concat_all(_)
concat_all(seqs) ==
    IF seqs = <<>> THEN <<>> ELSE Head(seqs) \o concat_all(Tail(seqs))

\* TodoIndex::get_all_todos: (uri, item) by priority descending, then uri,
\* then line; the key is unique, so the order the map hands out its entries
\* does not show
get_all_todos(by_document) ==
    LET of_uri(u, priority) ==
            IF u \in DOMAIN by_document
              THEN LET items == SelectSeq(by_document[u],
                                          LAMBDA item : item.priority = priority)
                   IN [k \in 1..Len(items) |-> [uri |-> u, item |-> items[k]]]
              ELSE <<>>
        of_priority(priority) ==
            concat_all([k \in 1..Len(UriOrder) |-> of_uri(UriOrder[k], priority)])
    IN concat_all([k \in 1..(MaxPriority + 1) |-> of_priority(MaxPriority + 1 - k)])

\* TodoIndex::count_by_kind, 0 for a kind without entry
count_by_kind(by_document) ==
    [kind \in TodoKinds |->
        SumOver([u \in DOMAIN by_document |->
                    Len(SelectSeq(by_document[u], LAMBDA item : item.kind = kind))],
                DOMAIN by_document)]

get_todo_stats(by_document) ==
    [total |-> todo_count(by_document),
     byKind |-> [kind \in TodoKinds \ {"Custom"} |-> count_by_kind(by_document)[kind]]]

DocumentNotFound == <<"D","o","c","u","m","e","n","t"," ","n","o","t"," ","f","o","u","n","d">>

UnsupportedLanguage == <<"U","n","s","u","p","p","o","r","t","e","d"," ","l","a","n","g","u","a","g","e">>

\* docs.get(uri), LanguageId::from_str and RefactorContext::new of the four
\* refactoring calls: the context, or the error text
service_context(docs, uri_, sel) ==
    IF uri_ \notin DOMAIN docs THEN [ok |-> FALSE, error |-> DocumentNotFound]
    ELSE LET lang == LanguageId_from_str(docs[uri_].language_id) IN
         IF lang = None THEN [ok |-> FALSE, error |-> UnsupportedLanguage]
         ELSE [ok |-> TRUE,
               ctx |-> [source |-> docs[uri_].content, uri |-> uri_,
                        selection |-> sel, language |-> lang[1]]]

\* the JSON of an edit-producing call: edits and description, or the error
edits_json(outcome) ==
    IF outcome.ok THEN [success |-> TRUE, result |-> outcome.value]
    ELSE [success |-> FALSE, error |-> outcome]

extract_variable(docs, uri_, sel, name) ==
    LET found == service_context(docs, uri_, sel) IN
    IF ~found.ok THEN [error |-> found.error]
    ELSE edits_json(extract(found.ctx, name))

extract_method(docs, uri_, sel, name) ==
    LET found == service_context(docs, uri_, sel) IN
    IF ~found.ok THEN [error |-> found.error]
    ELSE edits_json(extract_method_extract(found.ctx, name))

can_safe_delete(docs, uri_, sel) ==
    LET found == service_context(docs, uri_, sel) IN
    IF ~found.ok THEN [canDelete |-> FALSE, error |-> found.error]
    ELSE LET analysis == analyze(found.ctx) IN
         IF analysis.ok
           THEN [canDelete |-> analysis.value.can_delete, analysis |-> analysis.value]
           ELSE [canDelete |-> FALSE, error |-> analysis]

safe_delete(docs, uri_, sel) ==
    LET found == service_context(docs, uri_, sel) IN
    IF ~found.ok THEN [success |-> FALSE, error |-> found.error]
    ELSE edits_json(delete(found.ctx))

\* get_refactor_actions: no action for a uri that is not open or a language
\* id that is not known
get_refactor_actions(docs, uri_, sel) ==
    LET found == service_context(docs, uri_, sel) IN
    IF ~found.ok THEN <<>> ELSE get_actions(found.ctx)

\* ------------------------------------------------------------------------
\* Bounds and inputs
\* ------------------------------------------------------------------------

\* longest generated source text
MaxGenLen == 3

\* greatest line index of a generated selection
MaxSelLine == 1

\* greatest column index of a generated selection
MaxSelCol == 2

GenAlphabet == {"a", " ", ";", "\n"}

GenSources == UNION {[1..k -> GenAlphabet] : k \in 0..MaxGenLen}

GenSelections ==
    {r \in {from_coords(sl, sc, el, ec) :
                sl \in 0..MaxSelLine, sc \in 0..MaxSelCol,
                el \in 0..MaxSelLine, ec \in 0..MaxSelCol} :
        PosLE(r.start, r.end)}

Case(src, sl, sc, el, ec) == [source |-> src, selection |-> from_coords(sl, sc, el, ec)]

\* documents and selections of the crate's tests and of the documented examples
ExampleCases ==
    { Case(<<"c","o","n","s","o","l","e",".","l","o","g","(","a"," ","+"," ","b",")",";">>, 0, 12, 0, 17),
      Case(<<"l","e","t"," ","x"," ","="," ","a"," ","+"," ","b",";">>, 0, 8, 0, 13),
      Case(<<"l","e","t"," ","x"," ","="," ","a"," ","+"," ","b",";">>, 0, 8, 0, 8),
      Case(<<"p","r","i","n","t","(","x"," ","*"," ","2",")">>, 0, 6, 0, 11),
      Case(<<" "," ","f","o","o","(","a"," ","+"," ","b",")",";">>, 0, 6, 0, 11),
      Case(<<" "," ","f","o","o","(","a"," ","+"," ","b",")",";">>, 0, 0, 0, 13),
      Case(<<"\t","f","o","o","(","a"," ","+"," ","b",")","\n">>, 0, 5, 0, 10),
      Case(<<"l","e","t"," ","x"," ","="," ","1",";","\n","f","o","o","(","\n"," "," ","a"," ","+"," ","b","\n",")",";">>, 2, 2, 2, 7),
      Case(<<"d","e","f"," ","f","(",")",":","\n"," "," "," "," ","r","e","t","u","r","n"," ","g","(","x",")","\n">>, 1, 11, 1, 15),
      Case(<<"x"," ","="," ","1","\n","\n","y"," ","="," ","f","(","\n"," "," ","a",",","\n"," "," ","b",")","\n">>, 3, 2, 3, 3),
      Case(<<"f","(","a"," ","+"," ","b",","," ","a"," ","+"," ","b",")",";">>, 0, 2, 0, 7),
      Case(<<"f","(","g","(","\n"," "," ","1",")",",","\n"," "," ","2",")",";">>, 0, 2, 1, 4),
      Case(<<"i","f"," ">>, 0, 0, 0, 3),
      Case(<<"f","u","n","c","t","i","o","n"," ","f","o","o">>, 0, 0, 0, 12),
      Case(<<"(","a"," ","+"," ","b">>, 0, 0, 0, 6),
      Case(<<"x"," ","="," ","(","a"," ","+"," ","b",";">>, 0, 4, 0, 10),
      Case(<<"l","e","t"," ","f","o","o"," ","="," ","1",";","\n","c","o","n","s","o","l","e",".","l","o","g","(","f","o","o",")",";">>, 0, 4, 0, 7),
      Case(<<"l","e","t"," ","f","o","o"," ","="," ","1",";","\n","c","o","n","s","o","l","e",".","l","o","g","(","f","o","o",")",";">>, 0, 0, 0, 12),
      Case(<<"l","e","t"," ","f","o","o"," ","="," ","1",";","\n","c","o","n","s","o","l","e",".","l","o","g","(","f","o","o",")",";","\n","l","e","t"," ","b","a","r"," ","="," ","f","o","o"," ","+"," ","1",";">>, 0, 4, 0, 7),
      Case(<<"f","u","n","c","t","i","o","n"," ","u","n","u","s","e","d","(",")"," ","{","}","\n","f","u","n","c","t","i","o","n"," ","u","s","e","d","(",")"," ","{","}","\n","u","s","e","d","(",")",";">>, 0, 9, 0, 15),
      Case(<<"f","u","n","c","t","i","o","n"," ","u","n","u","s","e","d","(",")"," ","{","}","\n","f","u","n","c","t","i","o","n"," ","u","s","e","d","(",")"," ","{","}","\n","u","s","e","d","(",")",";">>, 0, 0, 0, 20),
      Case(<<"a","\n","f","o","o",";","\n","b">>, 1, 0, 1, 3),
      Case(<<"f","o","o",";","\n","b">>, 0, 0, 0, 3),
      Case(<<"a","\n","f","o","o",";">>, 1, 0, 1, 3),
      Case(<<"a","\n","f","o","o",";","\n">>, 1, 0, 1, 3),
      Case(<<"a","\n"," "," ","f","o","o","\n","b">>, 1, 2, 1, 5),
      Case(<<" "," ","f","o","o"," ",";","\n","b">>, 0, 2, 0, 5),
      Case(<<"f","o","o",";",";","\n","b">>, 0, 0, 0, 3),
      Case(<<"f","o","o"," ","="," ","1",";","\n","b">>, 0, 0, 0, 3),
      Case(<<"l","e","t"," ","f","o","o",";","\n","b">>, 0, 0, 0, 7),
      Case(<<"x"," ","="," ","f","o","o","(","\n","1",")"," ","+"," ","y","\n","z">>, 0, 4, 1, 2),
      Case(<<"f","o","o","(","\n","1",")","\n","z">>, 0, 0, 1, 2),
      Case(<<"x","\n","f","o","o","(","\n","1",")">>, 1, 0, 2, 2),
      Case(<<"x","\n","f","o","o","(","\n","1",")","\n">>, 1, 0, 2, 2),
      Case(<<"f","o","o","\n","f","o">>, 0, 0, 0, 2),
      Case(<<"f","o","o","(","1",")",";","\n","b","a","r","(","f","o","o","2",")",";">>, 0, 0, 0, 3) }

GenCases == {[source |-> s, selection |-> r] : s \in GenSources, r \in GenSelections}

Cases == ExampleCases \cup GenCases

\* the same text with "\r\n" line endings
RECURSIVE ToCrlf(_)
ToCrlf(s) ==
    IF s = <<>> THEN <<>>
    ELSE IF Head(s) = "\n" THEN <<"\r", "\n">> \o ToCrlf(Tail(s))
    ELSE <<Head(s)>> \o ToCrlf(Tail(s))

\* every case once more as a document with "\r\n" line endings
CrlfCases == {[source |-> ToCrlf(c.source), selection |-> c.selection] : c \in Cases}

\* expressions on a continuation line of an indented statement
InsertCases ==
    { Case(<<"f","(",")",";","\n"," "," ","g","(","\n"," "," "," "," ","a"," ","+"," ","b",")",";">>, 2, 4, 2, 9),
      Case(<<"x"," ","="," ","1","\n","\n"," "," ","y"," ","="," ","f","(","\n"," "," "," "," ","a",")">>, 3, 4, 3, 5),
      Case(<<"f","n"," ","f","(",")"," ","{","\n"," "," ","l","e","t"," ","y"," ","="," ","g","(","\n"," "," "," "," ","a",")",";","\n","}">>, 2, 4, 2, 5) }

\* selections whose text overlaps an earlier occurrence of itself
OverlapCases ==
    { Case(<<"a","a","a">>, 0, 1, 0, 3),
      Case(<<"f","(","x",","," ","x",","," ","x",")">>, 0, 5, 0, 9) }

\* names whose usages are looked up
UsageNames == {<<"a">>, <<"f","o","o">>}

\* selections that begin with a keyword: every statement start of every
\* language, followed by each of these
ExprTails ==
    {<<"x">>, <<"x"," ","="," ","1">>, <<"f"," ","="," ","(",")"," ","=",">"," ","1">>, <<"(","a",")"," ","{"," ","g","(","x"," ","=",">"," ","x",")",";"," ","}">>, <<"f","(","a",")"," ","{"," ","r","e","t","u","r","n"," ","a",";"," ","}">>,
     <<"a"," ","i","n"," ","b",":"," ","p","a","s","s">>, <<"x",";">>}

ExprStarts ==
    PythonStatementStarts \cup JsStatementStarts \cup RustStatementStarts
        \cup GoStatementStarts

\* selections that begin with no keyword: expressions and closure literals
PlainExprs == {<<"a"," ","+"," ","b">>, <<"(","x",")"," ","=",">"," ","x"," ","+"," ","1">>, <<"x"," ","=",">"," ","x">>, <<"(",")"," ","=",">"," ","1">>, <<"f","(","a",")">>, <<"c","o","n","s","t","a","n","t"," ","+"," ","1">>}

ExprTexts == {start \o tail : start \in ExprStarts, tail \in ExprTails} \cup PlainExprs

\* longest generated source handed to the unused detector
MaxDetectLen == 4

DetectAlphabet == {"a", "b", "_", " "}

DetectNames == {<<"a">>, <<"a","b">>, <<"_","a">>, <<"b">>}

\* a kind the detector tracks and one it does not
DetectKinds == {"Variable", "Field"}

\* make_symbol of the tests: the symbol spans its name at column 0
make_symbol(name, kind, line) ==
    [name |-> name, kind |-> kind,
     range |-> from_coords(line, 0, line, Len(name)),
     selection_range |-> from_coords(line, 0, line, Len(name)),
     children |-> <<>>]

\* the three unit tests, and a class with a method
DetectExamples ==
    { [symbols |-> <<make_symbol(<<"u","s","e","d","_","v","a","r">>, "Variable", 0),
                     make_symbol(<<"u","n","u","s","e","d","_","v","a","r">>, "Variable", 1)>>,
       source  |-> <<"l","e","t"," ","u","s","e","d","_","v","a","r"," ","="," ","1",";","\n","l","e","t"," ","u","n","u","s","e","d","_","v","a","r"," ","="," ","2",";","\n","p","r","i","n","t","(","u","s","e","d","_","v","a","r",")",";">>],
      [symbols |-> <<make_symbol(<<"_","u","n","u","s","e","d">>, "Variable", 0),
                     make_symbol(<<"u","n","u","s","e","d">>, "Variable", 1)>>,
       source  |-> <<"l","e","t"," ","_","u","n","u","s","e","d"," ","="," ","1",";","\n","l","e","t"," ","u","n","u","s","e","d"," ","="," ","2",";">>],
      [symbols |-> <<make_symbol(<<"s","e","l","f">>, "Variable", 0),
                     make_symbol(<<"m","a","i","n">>, "Function", 1)>>,
       source  |-> <<"d","e","f"," ","m","a","i","n","(",")",":"," ","p","a","s","s">>],
      [symbols |-> <<[make_symbol(<<"S","h","a","p","e">>, "Class", 1) EXCEPT
                        !.children = <<make_symbol(<<"a","r","e","a">>, "Method", 2),
                                       make_symbol(<<"s","i","d","e","s">>, "Field", 3)>>],
                     make_symbol(<<"P","I">>, "Constant", 0),
                     make_symbol(<<"T">>, "TypeParameter", 1),
                     make_symbol(<<"o","s">>, "Module", 0)>>,
       source  |-> <<"i","m","p","o","r","t"," ","o","s","\n","c","l","a","s","s"," ","S","h","a","p","e","<","T",">",":","\n"," ","d","e","f"," ","a","r","e","a","(",")",":"," ","P","I","\n"," ","s","i","d","e","s"," ","="," ","1","\n","S","h","a","p","e","(",")">>] }

\* one or two symbols, on successive lines or both on line 0
DetectSymbolLists ==
    {<<>>}
    \cup {<<make_symbol(n, k, 0)>> : n \in DetectNames, k \in DetectKinds}
    \cup {<<make_symbol(n1, "Variable", l), make_symbol(n2, k, 0)>> :
            n1 \in DetectNames, n2 \in DetectNames, k \in DetectKinds, l \in {0, 1}}

DetectSources == UNION {[1..k -> DetectAlphabet] : k \in 0..MaxDetectLen}

DetectCases ==
    DetectExamples
    \cup {[symbols |-> l, source |-> s] : l \in DetectSymbolLists, s \in DetectSources}

\* custom marker configurations: none, a new marker, a marker that replaces
\* a built-in one
CustomPatternLists == {<<>>, <<<<"p","e","r","f">>>>, <<<<"H","a","c","k">>, <<"p","e","r","f">>>>}

ScanPrefixes == {<<>>, <<"/","/"," ">>, <<"#"," ">>, <<"x">>, <<"/","*"," ">>}

ScanKeywords ==
    {<<"T","O","D","O">>, <<"F","I","X","M","E">>, <<"H","A","C","K">>, <<"X","X","X">>, <<"N","O","T","E">>, <<"B","U","G">>, <<"O","P","T","I","M","I","Z","E">>, <<"P","E","R","F">>, <<"t","o","d","o">>}

ScanMarks == {<<>>, <<"!">>}

ScanAuthors == {<<>>, <<"(","j","o",")">>, <<"(">>, <<"(",")">>}

ScanSeparators == {<<>>, <<":">>, <<" ">>, <<":"," ">>}

ScanTexts == {<<>>, <<"x">>, <<"f","i","x"," ","i","t"," ">>}

ScanLines ==
    {prefix \o keyword \o mark \o author \o sep \o text :
        prefix \in ScanPrefixes, keyword \in ScanKeywords, mark \in ScanMarks,
        author \in ScanAuthors, sep \in ScanSeparators, text \in ScanTexts}

\* the documents of the unit tests, and documents of several markers
ScanExamples ==
    {<<"\n","/","/"," ","T","O","D","O",":"," ","F","i","x"," ","t","h","i","s"," ","l","a","t","e","r","\n","f","n"," ","m","a","i","n","(",")"," ","{","\n"," "," "," "," ","/","/"," ","F","I","X","M","E",":"," ","H","a","n","d","l","e"," ","e","r","r","o","r"," ","c","a","s","e","\n"," "," "," "," ","p","r","i","n","t","l","n","!","(","\"","H","e","l","l","o","\"",")",";","\n","}","\n">>,
     <<"/","/"," ","T","O","D","O","(","j","o","h","n",")",":"," ","R","e","v","i","e","w"," ","t","h","i","s"," ","c","o","d","e">>,
     <<"/","/"," ","T","O","D","O","!",":"," ","U","r","g","e","n","t"," ","f","i","x"," ","n","e","e","d","e","d">>,
     <<"#"," ","T","O","D","O",":"," ","P","y","t","h","o","n"," ","t","o","d","o">>,
     <<"/","/"," ","T","O","D","O",":"," ","F","i","r","s","t","\n","/","/"," ","F","I","X","M","E",":"," ","S","e","c","o","n","d">>,
     <<"/","/"," ","N","O","T","E",":"," ","T","h","i","r","d">>,
     <<"/","/"," ","B","U","G","!",":"," ","c","r","a","s","h","\r","\n","/","/"," ","H","A","C","K","!",":"," ","l","a","t","e","r","\r","\n","/","/"," ","P","E","R","F","!",":"," ","s","l","o","w">>,
     <<"T","O","D","O","(","a"," ","T","O","D","O",":"," ","x">>,
     <<"f","(",")",";"," ","/","/"," ","X","X","X","!"," ","N","O","T","E",":"," ","y">>}

ScanSources == ScanLines \cup ScanExamples

\* documents handed to the TODO index
TodoUris == {"a.rs", "b.rs", "c.rs"}

TodoSources ==
    {<<>>,
     <<"f","n"," ","m","a","i","n","(",")"," ","{","}">>,
     <<"/","/"," ","T","O","D","O",":"," ","F","i","r","s","t","\n","/","/"," ","F","I","X","M","E",":"," ","S","e","c","o","n","d">>,
     <<"/","/"," ","N","O","T","E",":"," ","T","h","i","r","d">>,
     <<"/","/"," ","B","U","G","!",":"," ","x","\n","l","e","t"," ","y",";","\n","#"," ","H","A","C","K","(","j","o",")",":"," ","z">>,
     <<"/","/"," ","T","O","D","O",":"," ","F","i","r","s","t">>}

\* uris, texts and language ids handed to the LanguageService
ServiceUris == {UriOrder[k] : k \in 1..Len(UriOrder)}

ServiceContents ==
    {<<>>,
     <<"/","/"," ","T","O","D","O",":"," ","x","\n","f","o","o","(","a"," ","+"," ","b",")",";">>,
     <<"c","l","a","s","s"," ","C"," ","{"," ","}",";","\n","l","e","t"," ","f","o","o"," ","="," ","1",";"," ","/","/"," ","F","I","X","M","E","!",":"," ","y","\n","/","/"," ","N","O","T","E",":"," ","z">>}

LanguageIds == {"javascript", "plaintext"}

\* the selection `a + b` of the second text
ServiceSelections == {from_coords(1, 4, 1, 9)}

ServiceNames == {<<"v">>}

\* names offered for the extracted variable
VariableNames == {<<"s","u","m">>, <<"v">>}

\* action ids a host asks for: the three transformations and one other id
ActionIds == {<<"e","x","t","r","a","c","t","-","v","a","r","i","a","b","l","e">>, <<"e","x","t","r","a","c","t","-","m","e","t","h","o","d">>, <<"s","a","f","e","-","d","e","l","e","t","e">>, <<"r","e","n","a","m","e">>}

\* names a host passes to execute: none, or one name
NewNames == {None, Some(<<"v">>)}

\* ------------------------------------------------------------------------
\* C++ documents: each is given with the tree the parser makes of it
\* ------------------------------------------------------------------------

\* most members of a generated class body
MaxMembers == 3

\* deepest nesting of generated declarations
MaxDepth == 3

\* a part of a node: an anonymous token or a named child under a field
Tok(text) == [token |-> TRUE, text |-> text]

Sub(field, node) == [token |-> FALSE, field |-> field, node |-> node]

\* the node moved d columns to the right
RECURSIVE Shift(_, _)
Shift(node, d) ==
    [kind |-> node.kind, text |-> node.text,
     range |-> from_coords(0, node.range.start.column + d,
                           0, node.range.end.column + d),
     children |-> [k \in 1..Len(node.children) |->
                      [field |-> node.children[k].field,
                       node  |-> Shift(node.children[k].node, d)]]]

\* the parts laid out from left to right on one line
RECURSIVE Layout(_, _, _, _)
Layout(parts, i, text, children) ==
    IF i > Len(parts) THEN [text |-> text, children |-> children]
    ELSE IF parts[i].token
      THEN Layout(parts, i + 1, text \o parts[i].text, children)
    ELSE Layout(parts, i + 1, text \o parts[i].node.text,
                Append(children, [field |-> parts[i].field,
                                  node  |-> Shift(parts[i].node, Len(text))]))

Compose(kind, parts) ==
    LET l == Layout(parts, 1, <<>>, <<>>) IN
    [kind |-> kind, text |-> l.text,
     range |-> from_coords(0, 0, 0, Len(l.text)), children |-> l.children]

Leaf(kind, text) == Compose(kind, <<Tok(text)>>)

FieldDecl(type, name) ==
    Compose("field_declaration",
        <<Sub("type", type), Tok(<<" ">>),
          Sub("declarator", Leaf("field_identifier", name)), Tok(<<";">>)>>)

IntType == Leaf("primitive_type", <<"i","n","t">>)

VoidType == Leaf("primitive_type", <<"v","o","i","d">>)

CompoundStatement(parts) ==
    Compose("compound_statement", <<Tok(<<"{">>)>> \o parts \o <<Tok(<<"}">>)>>)

\* a function definition; name_kind is identifier, or field_identifier for
\* a member function defined in its class
FunctionDef(type, name_kind, name, body_parts) ==
    Compose("function_definition",
        <<Sub("type", type), Tok(<<" ">>),
          Sub("declarator",
              Compose("function_declarator",
                  <<Sub("declarator", Leaf(name_kind, name)),
                    Sub("parameters", Leaf("parameter_list", <<"(",")">>))>>)),
          Tok(<<" ">>), Sub("body", CompoundStatement(body_parts))>>)

CallStatement(callee) ==
    Compose("expression_statement",
        <<Sub("", Compose("call_expression",
                      <<Sub("function", callee),
                        Sub("arguments", Leaf("argument_list", <<"(",")">>))>>)),
          Tok(<<";">>)>>)

SpecifierKind(keyword) ==
    IF keyword = <<"s","t","r","u","c","t">> THEN "struct_specifier" ELSE "class_specifier"

\* class or struct specifier; name is None for an anonymous one
ClassSpec(keyword, name, member_parts) ==
    Compose(SpecifierKind(keyword),
        <<Tok(keyword), Tok(<<" ">>)>>
        \o (IF name = None THEN <<>>
            ELSE <<Sub("name", Leaf("type_identifier", name[1])), Tok(<<" ">>)>>)
        \o <<Sub("body", Compose("field_declaration_list",
                             <<Tok(<<"{">>)>> \o member_parts \o <<Tok(<<" ","}">>)>>))>>)

NamespaceDef(name, item_parts) ==
    Compose("namespace_definition",
        <<Tok(<<"n","a","m","e","s","p","a","c","e"," ">>)>>
        \o (IF name = None THEN <<>>
            ELSE <<Sub("name", Leaf("namespace_identifier", name[1])), Tok(<<" ">>)>>)
        \o <<Sub("body", Compose("declaration_list",
                             <<Tok(<<"{"," ">>)>> \o item_parts \o <<Tok(<<"}">>)>>))>>)

TranslationUnit(parts) == Compose("translation_unit", parts)

NameLetters == <<"a", "b", "c", "d", "e", "f", "g", "h">>

NameAt(k) == <<NameLetters[k]>>

MemberKinds == {"public", "private", "protected", "field", "method"}

\* the k-th member of a generated class body
MemberParts(member, k) ==
    CASE member = "public" ->
           <<Tok(<<" ">>), Sub("", Leaf("access_specifier", <<"p","u","b","l","i","c">>)), Tok(<<":">>)>>
      [] member = "private" ->
           <<Tok(<<" ">>), Sub("", Leaf("access_specifier", <<"p","r","i","v","a","t","e">>)), Tok(<<":">>)>>
      [] member = "protected" ->
           <<Tok(<<" ">>), Sub("", Leaf("access_specifier", <<"p","r","o","t","e","c","t","e","d">>)), Tok(<<":">>)>>
      [] member = "field" ->
           <<Tok(<<" ">>), Sub("", FieldDecl(IntType, <<"f">> \o NameAt(k)))>>
      [] member = "method" ->
           <<Tok(<<" ">>), Sub("", FunctionDef(VoidType, "field_identifier",
                                            <<"m">> \o NameAt(k), <<>>))>>

RECURSIVE MembersParts(_, _)
MembersParts(members, k) ==
    IF k > Len(members) THEN <<>>
    ELSE MemberParts(members[k], k) \o MembersParts(members, k + 1)

GenMemberLists == UNION {[1..k -> MemberKinds] : k \in 0..MaxMembers}

\* class C { members }; and struct C { members };
GenClassTrees ==
    {TranslationUnit(<<Sub("", ClassSpec(keyword, Some(<<"C">>), MembersParts(members, 1))),
                       Tok(<<";">>)>>) :
        keyword \in {<<"c","l","a","s","s">>, <<"s","t","r","u","c","t">>}, members \in GenMemberLists}

ScopeKinds ==
    {"namespace", "anonymous_namespace", "class", "struct", "anonymous_struct",
     "function"}

TypeScopes == {"class", "struct", "anonymous_struct"}

\* what C++ lets stand directly inside what
MayContain(outer, inner) ==
    CASE outer \in {"top", "namespace", "anonymous_namespace"} -> TRUE
      [] outer \in {"class", "struct"} -> inner = "function"
      [] outer = "anonymous_struct" -> inner = "function"
      [] outer = "function" -> inner \in TypeScopes

GenChains ==
    {c \in UNION {[1..k -> ScopeKinds] : k \in 1..MaxDepth} :
        /\ MayContain("top", c[1])
        /\ \A k \in 1..(Len(c) - 1) : MayContain(c[k], c[k + 1])}

\* the declaration at depth d of a chain, holding the rest of the chain
RECURSIVE ChainParts(_, _)
ChainParts(chain, d) ==
    IF d > Len(chain) THEN <<>>
    ELSE LET inner == ChainParts(chain, d + 1)
             field == <<Tok(<<" ">>), Sub("", FieldDecl(IntType, <<"f">> \o NameAt(d)))>>
         IN CASE chain[d] = "namespace" ->
                   <<Sub("", NamespaceDef(Some(NameAt(d)), inner)), Tok(<<" ">>)>>
              [] chain[d] = "anonymous_namespace" ->
                   <<Sub("", NamespaceDef(None, inner)), Tok(<<" ">>)>>
              [] chain[d] = "class" ->
                   <<Sub("", ClassSpec(<<"c","l","a","s","s">>, Some(NameAt(d)), field \o inner)),
                     Tok(<<";"," ">>)>>
              [] chain[d] = "struct" ->
                   <<Sub("", ClassSpec(<<"s","t","r","u","c","t">>, Some(NameAt(d)), field \o inner)),
                     Tok(<<";"," ">>)>>
              [] chain[d] = "anonymous_struct" ->
                   <<Sub("", Compose("declaration",
                                 <<Sub("type", ClassSpec(<<"s","t","r","u","c","t">>, None, field \o inner)),
                                   Tok(<<" ">>),
                                   Sub("declarator", Leaf("identifier", <<"v">> \o NameAt(d))),
                                   Tok(<<";">>)>>)),
                     Tok(<<" ">>)>>
              [] chain[d] = "function" ->
                   IF d > 1 /\ chain[d - 1] \in TypeScopes
                     THEN <<Tok(<<" ">>),
                            Sub("", FunctionDef(VoidType, "field_identifier", NameAt(d),
                                        <<Tok(<<" ">>)>> \o inner))>>
                   ELSE <<Sub("", FunctionDef(IntType, "identifier", NameAt(d),
                                      <<Tok(<<" ">>),
                                        Sub("", CallStatement(Leaf("identifier", <<"g">>))),
                                        Tok(<<" ">>)>> \o inner)),
                          Tok(<<" ">>)>>

GenChainTrees == {TranslationUnit(ChainParts(chain, 1)) : chain \in GenChains}

\* namespace demo { class User { public: std::string name; void greet() {} }; }
\* int greet() { return 0; }
DemoTree ==
    TranslationUnit(
        <<Sub("", NamespaceDef(Some(<<"d","e","m","o">>),
              <<Sub("", ClassSpec(<<"c","l","a","s","s">>, Some(<<"U","s","e","r">>),
                    <<Tok(<<" ">>), Sub("", Leaf("access_specifier", <<"p","u","b","l","i","c">>)), Tok(<<":">>),
                      Tok(<<" ">>),
                      Sub("", FieldDecl(
                          Compose("qualified_identifier",
                              <<Sub("scope", Leaf("namespace_identifier", <<"s","t","d">>)),
                                Tok(<<":",":">>),
                                Sub("name", Leaf("type_identifier", <<"s","t","r","i","n","g">>))>>),
                          <<"n","a","m","e">>)),
                      Tok(<<" ">>),
                      Sub("", FunctionDef(VoidType, "field_identifier", <<"g","r","e","e","t">>, <<>>))>>)),
                Tok(<<";"," ">>)>>)),
          Tok(<<" ">>),
          Sub("", FunctionDef(IntType, "identifier", <<"g","r","e","e","t">>,
                <<Tok(<<" ">>),
                  Sub("", Compose("return_statement",
                              <<Tok(<<"r","e","t","u","r","n"," ">>), Sub("", Leaf("number_literal", <<"0">>)),
                                Tok(<<";">>)>>)),
                  Tok(<<" ">>)>>))>>)

\* class MyClass { private: int private_field; void private_method() {}
\*                 public: int public_field; void public_method() {} };
MyClassTree ==
    TranslationUnit(
        <<Sub("", ClassSpec(<<"c","l","a","s","s">>, Some(<<"M","y","C","l","a","s","s">>),
              <<Tok(<<" ">>), Sub("", Leaf("access_specifier", <<"p","r","i","v","a","t","e">>)), Tok(<<":">>),
                Tok(<<" ">>), Sub("", FieldDecl(IntType, <<"p","r","i","v","a","t","e","_","f","i","e","l","d">>)),
                Tok(<<" ">>), Sub("", FunctionDef(VoidType, "field_identifier",
                                       <<"p","r","i","v","a","t","e","_","m","e","t","h","o","d">>, <<>>)),
                Tok(<<" ">>), Sub("", Leaf("access_specifier", <<"p","u","b","l","i","c">>)), Tok(<<":">>),
                Tok(<<" ">>), Sub("", FieldDecl(IntType, <<"p","u","b","l","i","c","_","f","i","e","l","d">>)),
                Tok(<<" ">>), Sub("", FunctionDef(VoidType, "field_identifier",
                                       <<"p","u","b","l","i","c","_","m","e","t","h","o","d">>, <<>>))>>)),
          Tok(<<";">>)>>)

\* #include <string>
IncludeTree ==
    TranslationUnit(
        <<Sub("", Compose("preproc_include",
                      <<Tok(<<"#","i","n","c","l","u","d","e"," ">>),
                        Sub("path", Leaf("system_lib_string", <<"<","s","t","r","i","n","g",">">>))>>))>>)

\* int main() { std::move(); a.b(); }
CallsTree ==
    TranslationUnit(
        <<Sub("", FunctionDef(IntType, "identifier", <<"m","a","i","n">>,
              <<Tok(<<" ">>),
                Sub("", CallStatement(
                    Compose("qualified_identifier",
                        <<Sub("scope", Leaf("namespace_identifier", <<"s","t","d">>)),
                          Tok(<<":",":">>), Sub("name", Leaf("identifier", <<"m","o","v","e">>))>>))),
                Tok(<<" ">>),
                Sub("", CallStatement(
                    Compose("field_expression",
                        <<Sub("argument", Leaf("identifier", <<"a">>)), Tok(<<".">>),
                          Sub("field", Leaf("field_identifier", <<"b">>))>>))),
                Tok(<<" ">>)>>))>>)

ExampleTrees ==
    {TranslationUnit(<<>>), DemoTree, MyClassTree, IncludeTree, CallsTree}

CppTrees == ExampleTrees \cup GenClassTrees \cup GenChainTrees

\* a source text with what the parser does with it
CppDoc(root) == [text |-> root.text, outcome |-> "tree", root |-> root]

CppDocs == {CppDoc(root) : root \in CppTrees}

\* a source for which the parser returns no tree
NoTreeDoc == [text |-> <<"?">>, outcome |-> "none", root |-> <<>>]

\* a source on which the parser panics
PanicDoc == [text |-> <<"!">>, outcome |-> "panic", root |-> <<>>]

CppUris == {"file:///test.cpp", "file:///other.cpp"}

\* t1 and t2 analyse the same source, t3 a source the parser fails on
Threads == {"t1", "t2", "t3"}

\* ------------------------------------------------------------------------
\* State: one RefactorContext and the outcome of the one call made on it
\* ------------------------------------------------------------------------

VARIABLES source, uri, selection, language, op, variable_name, result,
          actions, action_id, new_name,
          cpp_call, cpp_pc, cpp_tree, cpp_result,
          parser_owner, parser_poisoned, next_symbol_id,
          detector_symbols, scanner, documents, index, todo_index, last_indexed

vars == <<source, uri, selection, language, op, variable_name, result,
          actions, action_id, new_name,
          cpp_call, cpp_pc, cpp_tree, cpp_result,
          parser_owner, parser_poisoned, next_symbol_id,
          detector_symbols, scanner, documents, index, todo_index, last_indexed>>

refactor_vars == <<source, uri, selection, language, op, variable_name, result,
                   actions, action_id, new_name>>

\* one CppAdapter (its parser mutex and the id sequence) and, per thread,
\* the analyze call it makes: arguments, position, tree and returned value
cpp_vars == <<cpp_call, cpp_pc, cpp_tree, cpp_result,
              parser_owner, parser_poisoned, next_symbol_id>>

\* CppAdapter::new and no call of analyze
CppIdle ==
    /\ cpp_call = <<>>
    /\ cpp_pc = <<>>
    /\ cpp_tree = <<>>
    /\ cpp_result = <<>>
    /\ parser_owner = NoThread
    /\ parser_poisoned = FALSE
    /\ next_symbol_id = 1

\* the symbols handed to the unused detector, one comment scanner, and one
\* LanguageService: its documents, its symbol index and its TODO index (with
\* the sources last handed to that index)
service_vars == <<detector_symbols, scanner, documents, index, todo_index, last_indexed>>

ServiceIdle ==
    /\ detector_symbols = <<>>
    /\ scanner = <<>>
    /\ documents = EmptyMap
    /\ index = EmptyMap
    /\ todo_index = EmptyMap
    /\ last_indexed = EmptyMap

\* the engine call of a host: the list it was given, the id and name it asked
engine_vars == <<actions, action_id, new_name>>

EngineIdle == actions = None /\ action_id = <<>> /\ new_name = None

\* RefactorContext::new
context == [source |-> source, uri |-> uri, selection |-> selection,
            language |-> language]

Init ==
    /\ \E c \in Cases : source = c.source /\ selection = c.selection
    /\ uri = "test.js"
    /\ language \in Languages
    /\ op = "none"
    /\ variable_name = <<>>
    /\ result = <<>>
    /\ EngineIdle
    /\ CppIdle
    /\ ServiceIdle

\* no refactoring is asked for
RefactorIdle ==
    /\ source = <<>>
    /\ uri = "test.js"
    /\ selection = point(0, 0)
    /\ language = "Cpp"
    /\ op = "none"
    /\ variable_name = <<>>
    /\ result = <<>>
    /\ EngineIdle

Call(name, value) ==
    /\ op = "none"
    /\ op' = name
    /\ result' = value
    /\ UNCHANGED <<source, uri, selection, language, engine_vars, cpp_vars, service_vars>>

CanExtract ==
    Call("can_extract", can_extract(context)) /\ UNCHANGED variable_name

Extract ==
    \E name \in VariableNames :
        Call("extract", extract(context, name)) /\ variable_name' = name

FindOccurrences ==
    Call("find_occurrences", find_occurrences(context)) /\ UNCHANGED variable_name

IsValidExpression ==
    Call("is_valid_expression", is_valid_expression(selected_text(context), language))
    /\ UNCHANGED variable_name

Analyze ==
    Call("analyze", analyze(context)) /\ UNCHANGED variable_name

CanDelete ==
    Call("can_delete", can_delete(context)) /\ UNCHANGED variable_name

Delete ==
    Call("delete", delete(context)) /\ UNCHANGED variable_name

\* RefactorEngine::get_actions: the host keeps the list
GetActions ==
    /\ op = "none"
    /\ op' = "get_actions"
    /\ actions' = Some(get_actions(context))
    /\ UNCHANGED <<source, uri, selection, language, variable_name, result,
                   action_id, new_name, cpp_vars, service_vars>>

\* RefactorEngine::execute, asked by a host that holds the list
Execute ==
    \E id \in ActionIds, name \in NewNames :
        /\ op = "get_actions"
        /\ op' = "execute"
        /\ action_id' = id
        /\ new_name' = name
        /\ result' = execute(context, id, name)
        /\ UNCHANGED <<source, uri, selection, language, variable_name, actions,
                       cpp_vars, service_vars>>

Next ==
    \/ CanExtract
    \/ Extract
    \/ FindOccurrences
    \/ IsValidExpression
    \/ Analyze
    \/ CanDelete
    \/ Delete

Spec == Init /\ [][Next]_vars

\* documents with either line ending
RangeInit ==
    /\ \E c \in Cases \cup CrlfCases \cup OverlapCases :
           source = c.source /\ selection = c.selection
    /\ uri = "test.js"
    /\ language \in Languages
    /\ op = "none"
    /\ variable_name = <<>>
    /\ result = <<>>
    /\ EngineIdle
    /\ CppIdle
    /\ ServiceIdle

FindUsages ==
    \E name \in UsageNames :
        Call("find_usages", find_usages(context, name)) /\ variable_name' = name

\* RefactorContext::text_in_range, asked for the selection
TextInRange ==
    Call("text_in_range", text_in_range(source, selection)) /\ UNCHANGED variable_name

\* the operations that produce or read ranges
RangeNext ==
    \/ TextInRange
    \/ FindUsages
    \/ FindOccurrences
    \/ Analyze
    \/ Delete
    \/ Extract

RangeSpec == RangeInit /\ [][RangeNext]_vars

\* a one-line document selected as a whole
ExprInit ==
    /\ source \in ExprTexts
    /\ selection = from_coords(0, 0, 0, Len(source))
    /\ uri = "test.js"
    /\ language \in Languages
    /\ op = "none"
    /\ variable_name = <<>>
    /\ result = <<>>
    /\ EngineIdle
    /\ CppIdle
    /\ ServiceIdle

ExprNext ==
    \/ IsValidExpression
    \/ CanExtract

ExprSpec == ExprInit /\ [][ExprNext]_vars

\* find_declaration_insertion_point for the selection as expression range
FindDeclarationInsertionPoint ==
    Call("find_declaration_insertion_point",
         find_declaration_insertion_point(source, selection, language))
    /\ UNCHANGED variable_name

\* where the declaration goes, alone and as part of extract
InsertNext ==
    \/ FindDeclarationInsertionPoint
    \/ Extract

InsertInit ==
    /\ \E c \in Cases \cup InsertCases : source = c.source /\ selection = c.selection
    /\ uri = "test.js"
    /\ language \in Languages
    /\ op = "none"
    /\ variable_name = <<>>
    /\ result = <<>>
    /\ EngineIdle
    /\ CppIdle
    /\ ServiceIdle

InsertSpec == InsertInit /\ [][InsertNext]_vars

\* UnusedDetector::analyze of the symbols over the source, the map handing
\* out its entries in any order
UnusedAnalyze ==
    /\ \E order \in KeyOrders(DOMAIN unused_definitions(detector_symbols, source)) :
           Call("unused_analyze", UnusedDetector_analyze(detector_symbols, source, order))
    /\ UNCHANGED variable_name

DetectorInit ==
    /\ \E c \in DetectCases : source = c.source /\ detector_symbols = c.symbols
    /\ uri = "test.js"
    /\ selection = point(0, 0)
    /\ language = "Cpp"
    /\ op = "none"
    /\ variable_name = <<>>
    /\ result = <<>>
    /\ EngineIdle
    /\ CppIdle
    /\ scanner = <<>>
    /\ documents = EmptyMap
    /\ index = EmptyMap
    /\ todo_index = EmptyMap
    /\ last_indexed = EmptyMap

DetectorNext == UnusedAnalyze

DetectorSpec == DetectorInit /\ [][DetectorNext]_vars

\* CommentScanner::scan_file of the source
ScanFile ==
    /\ Call("scan_file", scan_file(scanner, source))
    /\ UNCHANGED variable_name

\* a scanner built from a configuration, and a source to scan
ScanInit ==
    /\ source \in ScanSources
    /\ \E custom_patterns \in CustomPatternLists :
           scanner = CommentScanner_new(custom_patterns)
    /\ uri = "test.rs"
    /\ selection = point(0, 0)
    /\ language = "Cpp"
    /\ op = "none"
    /\ variable_name = <<>>
    /\ result = <<>>
    /\ EngineIdle
    /\ CppIdle
    /\ detector_symbols = <<>>
    /\ documents = EmptyMap
    /\ index = EmptyMap
    /\ todo_index = EmptyMap
    /\ last_indexed = EmptyMap

ScanNext == ScanFile

ScanSpec == ScanInit /\ [][ScanNext]_vars

\* TodoIndex::index_document(uri, source); last_indexed remembers the source
IndexDocument ==
    \E u \in TodoUris, src \in TodoSources :
        /\ todo_index' = index_document(todo_index, u, src)
        /\ last_indexed' = MapInsert(last_indexed, u, src)
        /\ op' = "index_document"
        /\ uri' = u
        /\ source' = src
        /\ UNCHANGED <<selection, language, variable_name, result, engine_vars, cpp_vars,
                       detector_symbols, scanner, documents, index>>

\* TodoIndex::remove_document(uri)
RemoveDocument ==
    \E u \in TodoUris :
        /\ todo_index' = remove_document(todo_index, u)
        /\ last_indexed' = MapRemove(last_indexed, u)
        /\ op' = "remove_document"
        /\ uri' = u
        /\ UNCHANGED <<source, selection, language, variable_name, result, engine_vars,
                       cpp_vars, detector_symbols, scanner, documents, index>>

\* TodoIndex::new
TodoInit ==
    /\ todo_index = EmptyMap
    /\ last_indexed = EmptyMap
    /\ source = <<>>
    /\ uri = "a.rs"
    /\ selection = point(0, 0)
    /\ language = "Cpp"
    /\ op = "none"
    /\ variable_name = <<>>
    /\ result = <<>>
    /\ EngineIdle
    /\ CppIdle
    /\ detector_symbols = <<>>
    /\ scanner = <<>>
    /\ documents = EmptyMap
    /\ index = EmptyMap

TodoNext ==
    \/ IndexDocument
    \/ RemoveDocument

TodoSpec == TodoInit /\ [][TodoNext]_vars

\* what every LanguageService call leaves alone
ServiceFrame ==
    UNCHANGED <<language, engine_vars, cpp_vars, detector_symbols, scanner, last_indexed>>

\* openDocument(uri, content, languageId)
OpenDocument ==
    \E u \in ServiceUris, content \in ServiceContents, language_id \in LanguageIds :
        /\ documents' = open_document(documents, u, content, language_id)
        /\ todo_index' = index_document(todo_index, u, content)
        /\ op' = "open_document"
        /\ uri' = u
        /\ source' = content
        /\ result' = <<>>
        /\ UNCHANGED <<index, selection, variable_name>>
        /\ ServiceFrame

\* updateDocument(uri, content)
UpdateDocument ==
    \E u \in ServiceUris, content \in ServiceContents :
        /\ documents' = update_document(documents, u, content)
        /\ todo_index' = index_document(todo_index, u, content)
        /\ op' = "update_document"
        /\ uri' = u
        /\ source' = content
        /\ result' = <<>>
        /\ UNCHANGED <<index, selection, variable_name>>
        /\ ServiceFrame

\* closeDocument(uri)
CloseDocument ==
    \E u \in ServiceUris :
        /\ documents' = MapRemove(documents, u)
        /\ index' = SymbolIndex_remove_document(index, u)
        /\ todo_index' = remove_document(todo_index, u)
        /\ op' = "close_document"
        /\ uri' = u
        /\ result' = <<>>
        /\ UNCHANGED <<source, selection, variable_name>>
        /\ ServiceFrame

\* a call that reads: its name, its uri and what it returns
ServiceQuery(name, u, value) ==
    /\ op' = name
    /\ uri' = u
    /\ result' = value
    /\ UNCHANGED <<documents, index, todo_index, source>>
    /\ ServiceFrame

GetDocumentSymbols ==
    \E u \in ServiceUris :
        /\ ServiceQuery("get_document_symbols", u,
                        SymbolIndex_get_document_symbols(index, u))
        /\ UNCHANGED <<selection, variable_name>>

GetTodoItems ==
    \E u \in ServiceUris :
        /\ ServiceQuery("get_todo_items", u, get_document_todos(todo_index, u))
        /\ UNCHANGED <<selection, variable_name>>

GetAllTodoItems ==
    /\ ServiceQuery("get_all_todo_items", uri, get_all_todos(todo_index))
    /\ UNCHANGED <<selection, variable_name>>

GetTodoStats ==
    /\ ServiceQuery("get_todo_stats", uri, get_todo_stats(todo_index))
    /\ UNCHANGED <<selection, variable_name>>

GetRefactorActions ==
    \E u \in ServiceUris, sel \in ServiceSelections :
        /\ ServiceQuery("get_refactor_actions", u, get_refactor_actions(documents, u, sel))
        /\ selection' = sel
        /\ UNCHANGED variable_name

ExtractVariable ==
    \E u \in ServiceUris, sel \in ServiceSelections, name \in ServiceNames :
        /\ ServiceQuery("extract_variable", u, extract_variable(documents, u, sel, name))
        /\ selection' = sel
        /\ variable_name' = name

ExtractMethod ==
    \E u \in ServiceUris, sel \in ServiceSelections, name \in ServiceNames :
        /\ ServiceQuery("extract_method", u, extract_method(documents, u, sel, name))
        /\ selection' = sel
        /\ variable_name' = name

CanSafeDelete ==
    \E u \in ServiceUris, sel \in ServiceSelections :
        /\ ServiceQuery("can_safe_delete", u, can_safe_delete(documents, u, sel))
        /\ selection' = sel
        /\ UNCHANGED variable_name

SafeDelete ==
    \E u \in ServiceUris, sel \in ServiceSelections :
        /\ ServiceQuery("safe_delete", u, safe_delete(documents, u, sel))
        /\ selection' = sel
        /\ UNCHANGED variable_name

\* LanguageService::new
ServiceInit ==
    /\ documents = EmptyMap
    /\ index = SymbolIndex_new
    /\ todo_index = EmptyMap
    /\ last_indexed = EmptyMap
    /\ source = <<>>
    /\ uri = "a.js"
    /\ selection = point(0, 0)
    /\ language = "Cpp"
    /\ op = "none"
    /\ variable_name = <<>>
    /\ result = <<>>
    /\ EngineIdle
    /\ CppIdle
    /\ detector_symbols = <<>>
    /\ scanner = <<>>

ServiceNext ==
    \/ OpenDocument
    \/ UpdateDocument
    \/ CloseDocument
    \/ GetDocumentSymbols
    \/ GetTodoItems
    \/ GetAllTodoItems
    \/ GetTodoStats
    \/ GetRefactorActions
    \/ ExtractVariable
    \/ ExtractMethod
    \/ CanSafeDelete
    \/ SafeDelete

ServiceSpec == ServiceInit /\ [][ServiceNext]_vars

\* a host that asks the engine for the actions and then executes one
EngineNext ==
    \/ GetActions
    \/ Execute

EngineSpec == Init /\ [][EngineNext]_vars

\* ------------------------------------------------------------------------
\* CppAdapter: threads calling analyze on one adapter
\* ------------------------------------------------------------------------

analyze_args(t) == cpp_call[t]

CppInit ==
    /\ RefactorIdle
    /\ ServiceIdle
    /\ \E doc \in CppDocs, other_uri \in CppUris, bad \in {NoTreeDoc, PanicDoc} :
           cpp_call =
               [t \in Threads |->
                   IF t = "t1" THEN [uri |-> "file:///test.cpp", source |-> doc]
                   ELSE IF t = "t2" THEN [uri |-> other_uri, source |-> doc]
                   ELSE [uri |-> "file:///test.cpp", source |-> bad]]
    /\ cpp_pc = [t \in Threads |-> "idle"]
    /\ cpp_tree = [t \in Threads |-> None]
    /\ cpp_result = [t \in Threads |-> None]
    /\ parser_owner = NoThread
    /\ parser_poisoned = FALSE
    /\ next_symbol_id = 1

\* analyze -> parse: self.parser.lock() on a sound mutex gives the handle
Lock(t) ==
    /\ cpp_pc[t] = "idle"
    /\ lock_available(parser_owner)
    /\ ~parser_poisoned
    /\ parser_owner' = t
    /\ cpp_pc' = [cpp_pc EXCEPT ![t] = "parsing"]
    /\ UNCHANGED <<cpp_call, cpp_tree, cpp_result, parser_poisoned, next_symbol_id,
                   refactor_vars, service_vars>>

\* analyze -> parse: lock() on a poisoned mutex is an Err, .ok()? makes parse
\* return None and drops the guard; analyze returns the default result
LockPoisoned(t) ==
    /\ cpp_pc[t] = "idle"
    /\ lock_available(parser_owner)
    /\ parser_poisoned
    /\ cpp_result' = [cpp_result EXCEPT ![t] =
           Some(Returned(analyze_with_tree(analyze_args(t).uri, None, next_symbol_id)))]
    /\ cpp_pc' = [cpp_pc EXCEPT ![t] = "done"]
    /\ UNCHANGED <<cpp_call, cpp_tree, parser_owner, parser_poisoned, next_symbol_id,
                   refactor_vars, service_vars>>

\* parser.parse gives a tree; the guard is dropped as parse returns
ParseTree(t) ==
    /\ cpp_pc[t] = "parsing"
    /\ analyze_args(t).source.outcome = "tree"
    /\ cpp_tree' = [cpp_tree EXCEPT ![t] = parser_parse(analyze_args(t).source)]
    /\ parser_owner' = NoThread
    /\ cpp_pc' = [cpp_pc EXCEPT ![t] = "traversing"]
    /\ UNCHANGED <<cpp_call, cpp_result, parser_poisoned, next_symbol_id, refactor_vars, service_vars>>

\* parser.parse gives no tree; analyze returns the default result
ParseNone(t) ==
    /\ cpp_pc[t] = "parsing"
    /\ analyze_args(t).source.outcome = "none"
    /\ parser_owner' = NoThread
    /\ cpp_result' = [cpp_result EXCEPT ![t] =
           Some(Returned(analyze_with_tree(analyze_args(t).uri,
                                           parser_parse(analyze_args(t).source),
                                           next_symbol_id)))]
    /\ cpp_pc' = [cpp_pc EXCEPT ![t] = "done"]
    /\ UNCHANGED <<cpp_call, cpp_tree, parser_poisoned, next_symbol_id, refactor_vars, service_vars>>

\* the parser panics while the thread holds the guard: the unwinding drops
\* the guard and poisons the mutex
ParsePanic(t) ==
    /\ cpp_pc[t] = "parsing"
    /\ analyze_args(t).source.outcome = "panic"
    /\ parser_owner' = NoThread
    /\ parser_poisoned' = TRUE
    /\ cpp_pc' = [cpp_pc EXCEPT ![t] = "panicked"]
    /\ UNCHANGED <<cpp_call, cpp_tree, cpp_result, next_symbol_id, refactor_vars, service_vars>>

\* analyze_node from the root, and the return of ctx.result
Traverse(t) ==
    /\ cpp_pc[t] = "traversing"
    /\ LET ctx == analyze_with_tree(analyze_args(t).uri, cpp_tree[t], next_symbol_id)
       IN /\ cpp_result' = [cpp_result EXCEPT ![t] = Some(Returned(ctx))]
          /\ next_symbol_id' = ctx.next_id
    /\ cpp_pc' = [cpp_pc EXCEPT ![t] = "done"]
    /\ UNCHANGED <<cpp_call, cpp_tree, parser_owner, parser_poisoned, refactor_vars, service_vars>>

CppNext ==
    \E t \in Threads :
        \/ Lock(t)
        \/ LockPoisoned(t)
        \/ ParseTree(t)
        \/ ParseNone(t)
        \/ ParsePanic(t)
        \/ Traverse(t)

CppSpec == CppInit /\ [][CppNext]_vars


\* ------------------------------------------------------------------------
\* Vocabulary of the properties
\* ------------------------------------------------------------------------

ExtractDone == op = "extract" /\ result.ok

DeleteDone == op = "delete" /\ result.ok

SourceLines == Lines(source)

SingleLineSelection == selection.start.line = selection.end.line

\* offset in text of the first character of line l (text length when absent)
RECURSIVE LineStartOffset(_, _, _)
LineStartOffset(text, l, from) ==
    IF l = 0 THEN from
    ELSE IF from >= Len(text) THEN Len(text)
    ELSE IF text[from + 1] = "\n" THEN LineStartOffset(text, l - 1, from + 1)
    ELSE LineStartOffset(text, l, from + 1)

\* offset in text of the end of the line that starts at offset from
RECURSIVE LineEndOffset(_, _)
LineEndOffset(text, from) ==
    IF from >= Len(text) THEN Len(text)
    ELSE IF text[from + 1] = "\n" THEN from
    ELSE LineEndOffset(text, from + 1)

\* offset of a position in a text, the column clamped to the line
PosOffset(text, pos) ==
    LET s == LineStartOffset(text, pos.line, 0)
    IN Min(s + pos.column, LineEndOffset(text, s))

\* a text editor applying one edit to a text
ApplyEdit(text, edit) ==
    SubSeq(text, 1, PosOffset(text, edit.range.start))
        \o edit.new_text
        \o SubSeq(text, PosOffset(text, edit.range.end) + 1, Len(text))

\* a text editor applying edits one after the other, in the given order
RECURSIVE ApplyEdits(_, _)
ApplyEdits(text, edits) ==
    IF edits = <<>> THEN text
    ELSE ApplyEdits(ApplyEdit(text, Head(edits)), Tail(edits))

\* ------------------------------------------------------------------------
\* Extract variable
\* ------------------------------------------------------------------------

\* C1: the edits of a successful extract are ordered by descending range
\* start: no edit starts before the edit that follows it in the list.
C1_EditsDescendingByStart ==
    ExtractDone =>
        \A k \in 1..(Len(result.value.edits) - 1) :
            PosLE(result.value.edits[k + 1].range.start,
                  result.value.edits[k].range.start)

\* C2: a successful extract returns exactly two edits: the replacement of
\* exactly the selection by the variable name, then an empty-range insertion
\* of the declaration at the indentation column of a line on or above the
\* selection; no edit touches any other stretch of the document.
C2_ExactlyTwoEdits ==
    ExtractDone =>
        LET edits == result.value.edits IN
        /\ Len(edits) = 2
        /\ edits[1].range = selection
        /\ edits[1].new_text = variable_name
        /\ edits[2].range.start = edits[2].range.end
        /\ edits[2].range.start.line <= selection.start.line
        /\ edits[2].range.start.column =
               IndentLen(SourceLines[edits[2].range.start.line + 1])
        /\ result.value.generated_code = <<edits[2].new_text>>
        /\ \A k \in 1..Len(edits) :
               edits[k].range.start # edits[k].range.end => edits[k].range = selection

\* the expression occurs elsewhere in the document and extract succeeded
C2_Witness ==
    /\ ExtractDone
    /\ Len(find_occurrences(context)) >= 2

\* the declaration templates of the documentation
DeclarationTemplate(lang, name, expr) ==
    CASE lang = "Python" -> name \o <<" ","="," ">> \o expr
      [] lang \in {"JavaScript", "TypeScript"} -> <<"c","o","n","s","t"," ">> \o name \o <<" ","="," ">> \o expr \o <<";">>
      [] lang = "Rust" -> <<"l","e","t"," ">> \o name \o <<" ","="," ">> \o expr \o <<";">>
      [] lang = "Go" -> name \o <<" ",":","="," ">> \o expr
      [] lang \in {"C", "Cpp"} -> <<"a","u","t","o"," ">> \o name \o <<" ","="," ">> \o expr \o <<";">>

\* C3: the declaration (the insertion edit's text and generated_code) is the
\* insertion line's indentation, the language's template applied to the
\* variable name and the trimmed selected text, and a newline.
C3_DeclarationText ==
    (ExtractDone /\ language # "Java") =>
        LET insertion == result.value.edits[Len(result.value.edits)]
            indent    == SubSeq(SourceLines[insertion.range.start.line + 1], 1,
                                IndentLen(SourceLines[insertion.range.start.line + 1]))
            expected  == indent
                         \o DeclarationTemplate(language, variable_name,
                                                Trim(text_in_range(source, selection)))
                         \o <<"\n">>
        IN /\ insertion.new_text = expected
           /\ result.value.generated_code = <<expected>>

\* an indented statement whose selection carries surrounding blanks
C3_Witness ==
    /\ ExtractDone
    /\ language = "Go"
    /\ indentation_at(source, result.value.edits[2].range.start.line) # <<>>
    /\ Trim(selected_text(context)) # selected_text(context)

\* C4: applying the edits of a successful single-line extract in the
\* returned order gives the source with one new line (the statement line's
\* indentation and the declaration) right before the statement line and the
\* selection replaced by the variable name, everything else unchanged.
\* (Stated for selections that lie in the text of their line, after its
\* indentation, so that the indentation is among the unchanged characters.)
C4_EditsApplyCleanly ==
    (/\ ExtractDone
     /\ SingleLineSelection
     /\ selection.start.column >= IndentLen(SourceLines[selection.start.line + 1])
     /\ selection.end.column <= Len(SourceLines[selection.start.line + 1])) =>
        LET stmt_line == result.value.edits[Len(result.value.edits)].range.start.line
            new_line  == indentation_at(source, stmt_line)
                         \o TrimStart(result.value.generated_code[1])
            replaced  == ApplyEdit(source, TextEdit_replace(selection, variable_name))
            expected  == ApplyEdit(replaced, TextEdit_insert(Pos(stmt_line, 0), new_line))
        IN ApplyEdits(source, result.value.edits) = expected

\* ------------------------------------------------------------------------
\* Safe delete
\* ------------------------------------------------------------------------

\* the symbol name safe delete works on, <<>> when there is none
SymbolName == extract_symbol_name(Trim(selected_text(context)))

HasSymbol == Trim(selected_text(context)) # <<>> /\ SymbolName # <<>>

\* ranges of the whole-word matches of the symbol name that do not overlap
\* the selection
OtherMatches ==
    {r \in {from_coords(l, p, l, p + Len(SymbolName)) :
                l \in 0..(Len(SourceLines) - 1), p \in 0..Len(source)} :
        /\ WordMatchAt(SourceLines[r.start.line + 1], SymbolName, r.start.column)
        /\ ~overlaps(r, selection)}

\* C5: analyze reports can_delete = true exactly when no whole-word match of
\* the symbol name lies outside the selection.
C5_CanDeleteIffNoOtherMatch ==
    (op = "analyze" /\ result.ok) =>
        (result.value.can_delete <=> OtherMatches = {})

\* C6: when some whole-word match of the symbol name does not overlap the
\* selection, delete returns SymbolInUse with exactly those match locations
\* and no edit.
C6_DeleteRefusesWhenInUse ==
    (op = "delete" /\ HasSymbol /\ OtherMatches # {}) =>
        /\ ~result.ok
        /\ result.kind = "SymbolInUse"
        /\ {result.usages[k].range : k \in 1..Len(result.usages)} = OtherMatches
        /\ Len(result.usages) = Cardinality(OtherMatches)

\* the range of the single edit of a successful delete
DeletedRange == result.value.edits[1].range

\* line l is followed by a line terminator in the source
HasTerminator(l) ==
    l + 1 < Len(SourceLines) \/ (l + 1 = Len(SourceLines) /\ EndsWithChar(source, "\n"))

\* the whole of line l, with its line terminator when it has one
EntireLine(l) ==
    IF HasTerminator(l) THEN from_coords(l, 0, l + 1, 0)
    ELSE from_coords(l, 0, l, Len(SourceLines[l + 1]))

C8_MultiLineRange ==
    (DeleteDone /\ ~SingleLineSelection) =>
        /\ Len(result.value.edits) = 1
        /\ (selection.end.line + 1 < Len(SourceLines)
               => DeletedRange.end = Pos(selection.end.line + 1, 0))
        /\ (selection.end.line + 1 = Len(SourceLines)
               => DeletedRange = selection)

\* a multi-line selection with a line after it was deleted
C8_Witness ==
    /\ DeleteDone
    /\ ~SingleLineSelection
    /\ selection.end.line + 1 < Len(SourceLines)

\* the selection with its columns clamped to the lines
ClampedSelection ==
    LET clamp(p) == IF p.line < Len(SourceLines)
                      THEN Pos(p.line, Min(p.column, Len(SourceLines[p.line + 1])))
                      ELSE p
    IN Rng(clamp(selection.start), clamp(selection.end))

\* positions of the characters of the source; column Len(line) is the line
\* terminator of a line that has one
CharPositions ==
    {p \in {Pos(l, c) : l \in 0..(Len(SourceLines) - 1), c \in 0..Len(source)} :
        \/ p.column < Len(SourceLines[p.line + 1])
        \/ (p.column = Len(SourceLines[p.line + 1]) /\ HasTerminator(p.line))}

InRange(p, r) == PosLE(r.start, p) /\ PosLT(p, r.end)

\* p is a blank or the line terminator on a line of the selection, or the
\* one trailing ";" of the line that a single-line selection fills
IsPaddingOfSelectedLine(p) ==
    LET line == SourceLines[p.line + 1] IN
    /\ selection.start.line <= p.line
    /\ p.line <= selection.end.line
    /\ \/ p.column = Len(line)
       \/ IsWs(line[p.column + 1])
       \/ /\ SingleLineSelection
          /\ line[p.column + 1] = ";"
          /\ p.column + 1 = LastNonWs(line)
          /\ Trim(SubSeq(line, 1, p.column)) = selected_text(context)

\* C9: every character the deletion edit removes is inside the selection, or
\* is a blank, one trailing ";" or the newline of a line whose trimmed
\* content is the selected text; no other text around the selection goes.
C9_NoSurroundingTextRemoved ==
    DeleteDone =>
        \A p \in CharPositions :
            InRange(p, DeletedRange) =>
                (InRange(p, ClampedSelection) \/ IsPaddingOfSelectedLine(p))

\* ------------------------------------------------------------------------
\* Expression validity
\* ------------------------------------------------------------------------

RejectedSelections == {<<"i","f"," ">>, <<"f","u","n","c","t","i","o","n"," ","f","o","o">>, <<"(","a"," ","+"," ","b">>}

\* C10: for every language, is_valid_expression rejects the selections
\* "if ", "function foo" and "(a + b", and can_extract fails for them.
C10_RejectedSelections ==
    selected_text(context) \in RejectedSelections =>
        /\ (op = "is_valid_expression" => result = FALSE)
        /\ (op = "can_extract" => (~result.ok /\ result.kind = "CannotExtract"))
        /\ (op = "extract" => (~result.ok /\ result.kind = "CannotExtract"))

\* the bare control keyword was offered to can_extract in a language without
\* language-specific statement checks
C10_Witness ==
    /\ op = "can_extract"
    /\ selected_text(context) = <<"i","f"," ">>
    /\ language = "Java"
    /\ ~result.ok

\* ------------------------------------------------------------------------
\* Delimiter balance (analysis.rs): texts of quotes, escapes and delimiters
\* ------------------------------------------------------------------------

\* longest generated text of delimiters
MaxDelimLen == 4

DelimAlphabet == {"(", ")", "[", "\"", "'", "\\", "a"}

DelimTexts ==
    UNION {[1..k -> DelimAlphabet] : k \in 0..MaxDelimLen}
        \cup {<<"{","[","(",")","]","}">>, <<"f","(","\"","a",")","\"",","," ","b",")">>, <<"x"," ","="," ","\"","\\","\\","\"",";">>, <<"f","(","'","\\","'","'",","," ","\"","\\","\"","\"",")">>,
              <<"{","a","]">>, <<"g","(","\"","\\","\\","\"",","," ","[","1","]",")">>, <<"(","a"," ","+"," ","b">>}

\* a one-line document selected from its first to its last character
DelimInit ==
    /\ source \in DelimTexts
    /\ selection = from_coords(0, 0, 0, Len(source))
    /\ uri = "test.js"
    /\ language = "JavaScript"
    /\ op = "none"
    /\ variable_name = <<>>
    /\ result = <<>>
    /\ EngineIdle
    /\ CppIdle
    /\ ServiceIdle

HasBalancedDelimiters ==
    Call("has_balanced_delimiters", has_balanced_delimiters(selected_text(context)))
    /\ UNCHANGED variable_name

DelimNext == HasBalancedDelimiters

DelimSpec == DelimInit /\ [][DelimNext]_vars

Openers == {"(", "[", "{"}

Closers == {")", "]", "}"}

OpenerOf(ch) == CASE ch = ")" -> "(" [] ch = "]" -> "[" [] ch = "}" -> "{"

Quotes == {"\"", "'", Backtick}

\* Well-formedness of a text as a lexer reads it: inside a literal a
\* backslash escapes the character after it, so a quote after an escaping
\* backslash stays inside the literal and a quote after an escaped
\* backslash closes it; outside literals every closer matches the most
\* recent unclosed opener; at the end nothing is open.
RECURSIVE WellDelimitedFrom(_, _, _, _, _)
WellDelimitedFrom(text, i, stack, quote, escaped) ==
    IF i > Len(text) THEN stack = <<>> /\ quote = "none"
    ELSE LET ch == text[i] IN
      IF quote # "none"
        THEN IF escaped THEN WellDelimitedFrom(text, i + 1, stack, quote, FALSE)
             ELSE IF ch = "\\" THEN WellDelimitedFrom(text, i + 1, stack, quote, TRUE)
             ELSE IF ch = quote THEN WellDelimitedFrom(text, i + 1, stack, "none", FALSE)
             ELSE WellDelimitedFrom(text, i + 1, stack, quote, FALSE)
      ELSE IF ch \in Quotes THEN WellDelimitedFrom(text, i + 1, stack, ch, FALSE)
      ELSE IF ch \in Openers
        THEN WellDelimitedFrom(text, i + 1, Append(stack, ch), "none", FALSE)
      ELSE IF ch \in Closers
        THEN /\ stack # <<>>
             /\ stack[Len(stack)] = OpenerOf(ch)
             /\ WellDelimitedFrom(text, i + 1, SubSeq(stack, 1, Len(stack) - 1),
                                  "none", FALSE)
      ELSE WellDelimitedFrom(text, i + 1, stack, "none", FALSE)

WellDelimited(text) == WellDelimitedFrom(text, 1, <<>>, "none", FALSE)

\* C11: has_balanced_delimiters answers true exactly for the texts that are
\* well delimited once the characters inside string and character literals
\* are ignored, an escaped quote not closing a literal and a quote after an
\* escaped backslash closing it.
C11_BalancedIffWellDelimited ==
    op = "has_balanced_delimiters" => (result <=> WellDelimited(source))

\* ------------------------------------------------------------------------
\* Extract variable: preconditions
\* ------------------------------------------------------------------------

\* an error value carries neither edits nor generated code
CarriesNothing(res) == ~res.ok /\ "value" \notin DOMAIN res

\* C12: extract refuses before it builds anything: a selection that is empty
\* after trimming gives NoExpression, a selection that is not a valid
\* expression for the language gives CannotExtract, and in both cases the
\* result holds no edit and no generated code.
C12_ExtractFailsFast ==
    op = "extract" =>
        LET selected == Trim(selected_text(context)) IN
        /\ selected = <<>> =>
               CarriesNothing(result) /\ result.kind = "NoExpression"
        /\ (selected # <<>> /\ ~is_valid_expression(selected, language)) =>
               CarriesNothing(result) /\ result.kind = "CannotExtract"
        /\ (selected # <<>> /\ is_valid_expression(selected, language)) => result.ok

C12_Witness ==
    /\ op = "extract"
    /\ Trim(selected_text(context)) # <<>>
    /\ ~is_valid_expression(Trim(selected_text(context)), language)
    /\ result.kind = "CannotExtract"
    /\ CarriesNothing(result)

\* ------------------------------------------------------------------------
\* Engine: discovery and execution
\* ------------------------------------------------------------------------

Listed == actions[1]

\* the entries of the list that carry the id
EntriesOf(id) == {k \in 1..Len(Listed) : Listed[k].id = id}

Transformations == {<<"e","x","t","r","a","c","t","-","v","a","r","i","a","b","l","e">>, <<"e","x","t","r","a","c","t","-","m","e","t","h","o","d">>, <<"s","a","f","e","-","d","e","l","e","t","e">>}

WellFormedEntry(a) ==
    \/ a.is_available /\ a.unavailable_reason = None
    \/ ~a.is_available /\ a.unavailable_reason # None

\* C13: get_actions lists each of the three transformations exactly once,
\* every entry either available without a reason or unavailable with one;
\* a transformation that does not apply is listed as unavailable.
C13_OneEntryPerTransformation ==
    op = "get_actions" =>
        /\ \A id \in Transformations : Cardinality(EntriesOf(id)) = 1
        /\ \A k \in 1..Len(Listed) :
               Listed[k].id \in Transformations /\ WellFormedEntry(Listed[k])

ExecutedExtractVariable == op = "execute" /\ action_id = <<"e","x","t","r","a","c","t","-","v","a","r","i","a","b","l","e">>

UnknownAction(id) == InvalidSelection(<<"U","n","k","n","o","w","n"," ","a","c","t","i","o","n",":"," ">> \o id)

\* C14: executing extract-variable returns edits exactly when the list shows
\* extract-variable as available; when the list shows it as unavailable the
\* execution fails with the error whose display text is the listed reason;
\* and every id in the list is an id that execute dispatches on.
C14_DiscoveryAgreesWithExecution ==
    /\ ExecutedExtractVariable =>
           /\ (result.ok /\ result.value.edits # <<>>) <=>
                  \E k \in EntriesOf(<<"e","x","t","r","a","c","t","-","v","a","r","i","a","b","l","e">>) : Listed[k].is_available
           /\ ~result.ok =>
                  \E k \in EntriesOf(<<"e","x","t","r","a","c","t","-","v","a","r","i","a","b","l","e">>) :
                      /\ ~Listed[k].is_available
                      /\ Listed[k].unavailable_reason = Some(to_string(result))
    /\ op = "get_actions" =>
           \A k \in 1..Len(Listed), name \in NewNames :
               execute(context, Listed[k].id, name) # UnknownAction(Listed[k].id)

C14_Witness ==
    /\ ExecutedExtractVariable
    /\ ~result.ok
    /\ \E k \in EntriesOf(<<"e","x","t","r","a","c","t","-","v","a","r","i","a","b","l","e">>) :
           Listed[k].unavailable_reason =
               Some(<<"C","a","n","n","o","t"," ","e","x","t","r","a","c","t",":"," ","S","e","l","e","c","t","i","o","n"," ","i","s"," ","n","o","t"," ","a"," ","v","a","l","i","d"," ","e","x","p","r","e","s","s","i","o","n">>)

\* ------------------------------------------------------------------------
\* CppAdapter::analyze
\* ------------------------------------------------------------------------

HasReturned(t) == cpp_pc[t] = "done"

ReturnedValue(t) == cpp_result[t][1]

\* C15: analyze never fails: every call that returns hands back an
\* AnalysisResult, and a call that got no tree, because the parser gave none
\* or because the parser lock was poisoned, returns the empty result; no call
\* ends otherwise except by a panic inside the parser itself.
C15_AnalyzeNeverFails ==
    \A t \in Threads :
        /\ HasReturned(t) =>
               /\ cpp_result[t] # None
               /\ DOMAIN ReturnedValue(t).result = {"symbols", "imports", "calls"}
               /\ cpp_tree[t] = None =>
                      ReturnedValue(t).result = AnalysisResult_default
        /\ cpp_pc[t] = "panicked" => analyze_args(t).source.outcome = "panic"

\* a call on a parseable source returned the empty result since the lock
\* was poisoned
C15_Witness ==
    \E t \in Threads :
        /\ HasReturned(t)
        /\ parser_poisoned
        /\ analyze_args(t).source.outcome = "tree"
        /\ analyze_args(t).source.root.children # <<>>
        /\ cpp_tree[t] = None
        /\ ReturnedValue(t).result = AnalysisResult_default

\* at most one call is inside parser.parse
ParserExclusive ==
    \A t, u \in Threads :
        (cpp_pc[t] = "parsing" /\ cpp_pc[u] = "parsing") => t = u

\* the handle belongs to a thread exactly while that thread parses: it is
\* free again when the thread traverses its tree or has returned
HeldOnlyWhileParsing ==
    \A t \in Threads : (parser_owner = t) <=> (cpp_pc[t] = "parsing")

AllCallsEnded == \A t \in Threads : cpp_pc[t] \in {"done", "panicked"}

\* the thread can take its next step: it parses or traverses, or it is at
\* lock() and the handle is free
CanStep(t) ==
    \/ cpp_pc[t] \in {"parsing", "traversing"}
    \/ cpp_pc[t] = "idle" /\ lock_available(parser_owner)

\* a thread waits at lock() only for a thread that is parsing
WaitsOnlyForParsing ==
    \A t \in Threads :
        (cpp_pc[t] = "idle" /\ ~lock_available(parser_owner)) =>
            \E u \in Threads : parser_owner = u /\ cpp_pc[u] = "parsing"

\* C16: at most one analyze call uses the parser handle at a time, the
\* handle is held only for the parse step and is released before the
\* traversal, and no deadlock is possible: as long as a call has not ended
\* some thread can take a step, and who waits for the handle waits for a
\* thread that is parsing.
C16_ExclusiveParserNoDeadlock ==
    /\ ParserExclusive
    /\ HeldOnlyWhileParsing
    /\ AllCallsEnded \/ \E t \in Threads : CanStep(t)
    /\ WaitsOnlyForParsing

\* one call traverses its tree while another holds the handle and a third
\* waits for it
C16_Witness ==
    \E t, u, v \in Threads :
        /\ cpp_pc[t] = "traversing"
        /\ cpp_pc[u] = "parsing" /\ parser_owner = u
        /\ cpp_pc[v] = "idle"

\* the place in the list of the symbol with the id: 0 for SymbolId(0), -1
\* for an id that is not in the list
IdIndex(symbols, id) ==
    IF id = 0 THEN 0
    ELSE IF \E k \in 1..Len(symbols) : symbols[k].id = id
      THEN CHOOSE k \in 1..Len(symbols) : symbols[k].id = id
    ELSE -1

\* the result with every symbol id replaced by the symbol's place in the list
UpToIds(res) ==
    [symbols |->
        [k \in 1..Len(res.symbols) |->
            [res.symbols[k] EXCEPT
                !.id = k,
                !.parent = IF res.symbols[k].parent = None THEN None
                           ELSE Some(IdIndex(res.symbols, res.symbols[k].parent[1]))]],
     imports |-> res.imports,
     calls |-> res.calls]

SameResultUpToIds(t, u) ==
    UpToIds(ReturnedValue(t).result) = UpToIds(ReturnedValue(u).result)

TraversedRoot(t) == analyze_args(t).source.root

HasTraversed(t) == HasReturned(t) /\ cpp_tree[t] # None

SymbolsOf(t) == ReturnedValue(t).result.symbols

\* the nodes of a tree
RECURSIVE Descendants(_)
Descendants(node) ==
    {node} \cup UNION {Descendants(node.children[k].node) : k \in 1..Len(node.children)}

\* the member lists of the classes and structs of a tree
Containers(root) ==
    {n \in Descendants(root) :
        /\ n.kind \in {"class_specifier", "struct_specifier"}
        /\ \E k \in 1..Len(n.children) :
               n.children[k].field = "body"
               /\ n.children[k].node.kind = "field_declaration_list"}

MemberList(container) ==
    LET k == CHOOSE j \in 1..Len(container.children) : container.children[j].field = "body"
    IN container.children[k].node.children

KeywordVisibility(word) ==
    CASE word = <<"p","u","b","l","i","c">> -> "Public"
      [] word = <<"p","r","o","t","e","c","t","e","d">> -> "Protected"
      [] word = <<"p","r","i","v","a","t","e">> -> "Private"

\* the visibility C++ gives the k-th member of the container
MemberVisibility(container, k) ==
    LET members    == MemberList(container)
        specifiers == {j \in 1..(k - 1) : members[j].node.kind = "access_specifier"}
    IN IF specifiers = {}
         THEN (IF container.kind = "struct_specifier" THEN "Public" ELSE "Private")
       ELSE KeywordVisibility(
                members[CHOOSE j \in specifiers : \A i \in specifiers : i <= j].node.text)

\* every field and member function of the tree with its place and visibility
MemberSites(root) ==
    UNION {{[range      |-> MemberList(c)[k].node.range,
             visibility |-> MemberVisibility(c, k)] :
               k \in {j \in 1..Len(MemberList(c)) :
                        MemberList(c)[j].node.kind
                            \in {"field_declaration", "function_definition"}}} :
           c \in Containers(root)}

\* C18: every field or method symbol has the visibility of the most recent
\* access specifier before it in its container's member list, or else the
\* container's default (private in a class, public in a struct), and is
\* exported exactly when that visibility is public.
C18_MemberVisibility ==
    \A t \in Threads :
        HasTraversed(t) =>
            \A k \in 1..Len(SymbolsOf(t)) :
                LET s == SymbolsOf(t)[k] IN
                s.kind \in {"Field", "Method"} =>
                    /\ \E site \in MemberSites(TraversedRoot(t)) :
                           /\ site.range = s.location.range
                           /\ site.visibility = s.visibility
                    /\ s.exported <=> (s.visibility = "Public")

\* a struct whose first member comes before any access specifier and whose
\* next member follows `protected:`
C18_Witness ==
    \E t \in Threads :
        /\ HasTraversed(t)
        /\ Len(SymbolsOf(t)) = 3
        /\ SymbolsOf(t)[1].kind = "Struct"
        /\ SymbolsOf(t)[2].visibility = "Public" /\ SymbolsOf(t)[2].exported
        /\ SymbolsOf(t)[3].visibility = "Protected" /\ ~SymbolsOf(t)[3].exported

FieldChild(node, name) ==
    node.children[CHOOSE k \in 1..Len(node.children) : node.children[k].field = name].node

HasField(node, name) == \E k \in 1..Len(node.children) : node.children[k].field = name

\* the declared name of a declarator: the innermost declarator's text
RECURSIVE DeclaratorName(_)
DeclaratorName(node) ==
    IF HasField(node, "declarator") THEN DeclaratorName(FieldChild(node, "declarator"))
    ELSE node.text

\* a declaration that C++ gives a name: a named namespace, class or struct,
\* or a function definition
IsNamedDeclaration(node) ==
    \/ node.kind \in {"namespace_definition", "class_specifier", "struct_specifier"}
       /\ HasField(node, "name")
    \/ node.kind = "function_definition" /\ HasField(node, "declarator")

DeclaredName(node) ==
    IF node.kind = "function_definition"
      THEN DeclaratorName(FieldChild(node, "declarator"))
    ELSE FieldChild(node, "name").text

\* every node of the tree with the named declarations that enclose it,
\* outermost first
RECURSIVE Enclosed(_, _)
Enclosed(node, chain) ==
    LET inner == IF IsNamedDeclaration(node)
                   THEN Append(chain, [name |-> DeclaredName(node), range |-> node.range])
                 ELSE chain
    IN {[kind |-> node.kind, range |-> node.range, chain |-> chain]}
       \cup UNION {Enclosed(node.children[k].node, inner) : k \in 1..Len(node.children)}

NodeKinds(symbol_kind) ==
    CASE symbol_kind = "Namespace" -> {"namespace_definition"}
      [] symbol_kind = "Class" -> {"class_specifier"}
      [] symbol_kind = "Struct" -> {"struct_specifier"}
      [] symbol_kind \in {"Function", "Method"} -> {"function_definition"}
      [] symbol_kind = "Field" -> {"field_declaration"}

\* the names of the chain joined by ::, followed by the name
RECURSIVE Qualified(_, _)
Qualified(chain, name) ==
    IF chain = <<>> THEN name
    ELSE Head(chain).name \o <<":",":">> \o Qualified(Tail(chain), name)

\* the symbol was emitted for the site, inside the site's chain of scopes
EmittedIn(symbols, s, site) ==
    /\ site.range = s.location.range
    /\ site.kind \in NodeKinds(s.kind)
    /\ s.qualified_name = Qualified(site.chain, s.name)
    /\ s.kind \in {"Field", "Method"} =>
           IF site.chain = <<>> THEN s.parent = Some(0)
           ELSE \E p \in 1..Len(symbols) :
                    /\ s.parent = Some(symbols[p].id)
                    /\ symbols[p].location.range = site.chain[Len(site.chain)].range

\* C19: the scope stack is the chain of the enclosing named declarations:
\* every symbol's qualified name is the names of the named declarations
\* around its node joined by ::, followed by its own name; the parent of a
\* field or method is the symbol of the innermost of them; and the stack is
\* empty when analyze returns.
C19_ScopeStackIsEnclosingChain ==
    \A t \in Threads :
        HasTraversed(t) =>
            /\ ReturnedValue(t).scope_stack = <<>>
            /\ \A k \in 1..Len(SymbolsOf(t)) :
                   \E site \in Enclosed(TraversedRoot(t), <<>>) :
                       EmittedIn(SymbolsOf(t), SymbolsOf(t)[k], site)

\* ------------------------------------------------------------------------
\* Produced ranges
\* ------------------------------------------------------------------------

Ordered(range) == PosLE(range.start, range.end)

AllOrdered(ranges) == \A k \in 1..Len(ranges) : Ordered(ranges[k])

LocationsOrdered(locations) ==
    \A k \in 1..Len(locations) : Ordered(locations[k].range)

EditsOrdered(edits) == \A k \in 1..Len(edits) : Ordered(edits[k].range)

\* C20: given a selection with start <= end, every range produced has
\* start <= end: the usage locations of find_usages, the occurrence ranges
\* of find_occurrences (documents with "\n" or "\r\n" line endings, with or
\* without a trailing newline), the symbol range and the usages of the
\* analysis, the deletion range and the ranges of all emitted edits.
C20_ProducedRangesOrdered ==
    Ordered(selection) =>
        /\ op = "find_usages" => LocationsOrdered(result)
        /\ op = "find_occurrences" => AllOrdered(result)
        /\ (op = "analyze" /\ result.ok) =>
               Ordered(result.value.symbol_range) /\ LocationsOrdered(result.value.usages)
        /\ (op \in {"delete", "extract"} /\ result.ok) => EditsOrdered(result.value.edits)
        /\ (op = "delete" /\ ~result.ok) => LocationsOrdered(result.usages)

\* ------------------------------------------------------------------------
\* Statement keywords
\* ------------------------------------------------------------------------

StatementKeywords(lang) ==
    CASE lang = "Python" -> {<<"d","e","f">>, <<"c","l","a","s","s">>, <<"i","f">>, <<"f","o","r">>, <<"w","h","i","l","e">>, <<"w","i","t","h">>}
      [] lang \in {"JavaScript", "TypeScript"} ->
           {<<"f","u","n","c","t","i","o","n">>, <<"c","l","a","s","s">>, <<"i","f">>, <<"f","o","r">>, <<"w","h","i","l","e">>, <<"s","w","i","t","c","h">>, <<"t","r","y">>,
            <<"c","o","n","s","t">>, <<"l","e","t">>, <<"v","a","r">>}
      [] lang = "Rust" ->
           {<<"f","n">>, <<"s","t","r","u","c","t">>, <<"e","n","u","m">>, <<"i","m","p","l">>, <<"t","r","a","i","t">>, <<"m","o","d">>, <<"u","s","e">>, <<"p","u","b">>}
      [] lang = "Go" -> {<<"f","u","n","c">>, <<"t","y","p","e">>, <<"v","a","r">>, <<"c","o","n","s","t">>, <<"p","a","c","k","a","g","e">>, <<"i","m","p","o","r","t">>}
      [] OTHER -> {}

BeginsWithStatementKeyword(t, lang) ==
    \E kw \in StatementKeywords(lang) : StartsWith(t, Append(kw, " "))

IsIdentifier(t) == t # <<>> /\ \A k \in 1..Len(t) : IsWord(t[k])

\* an arrow function: a parameter list or one parameter name, =>, a body
IsClosureLiteral(t, lang) ==
    \E i \in 1..(Len(t) - 1) :
        /\ SubSeq(t, i, i + 1) = <<"=",">">>
        /\ LET params == Trim(SubSeq(t, 1, i - 1))
           IN \/ params # <<>> /\ params[1] = "(" /\ params[Len(params)] = ")"
              \/ IsIdentifier(params) /\ params \notin StatementKeywords(lang)

\* C25: is_valid_expression rejects a selection that begins with a
\* statement-starting keyword of its language; the only exception is a
\* JavaScript/TypeScript selection that is itself a closure literal.
C25_StatementKeywordRejected ==
    LET t == Trim(selected_text(context)) IN
    (/\ op = "is_valid_expression"
     /\ BeginsWithStatementKeyword(t, language)
     /\ ~(language \in {"JavaScript", "TypeScript"} /\ IsClosureLiteral(t, language)))
        => result = FALSE

\* ------------------------------------------------------------------------
\* Addressed text
\* ------------------------------------------------------------------------

Clamp(column, line) == IF column <= Len(line) THEN column ELSE Len(line)

\* the part of line i that the range addresses
AddressedSlice(lines, range, i) ==
    LET line == lines[i + 1]
        from == IF i = range.start.line THEN Clamp(range.start.column, line) ELSE 0
        to   == IF i = range.end.line THEN Clamp(range.end.column, line) ELSE Len(line)
    IN SubSeq(line, from + 1, to)

RECURSIVE JoinedSlices(_, _, _, _)
JoinedSlices(lines, range, i, last) ==
    IF i > last THEN <<>>
    ELSE IF i = last THEN AddressedSlice(lines, range, i)
    ELSE AddressedSlice(lines, range, i) \o <<"\n">> \o JoinedSlices(lines, range, i + 1, last)

\* the slices of the lines of the document that the range spans, joined
AddressedText(src, range) ==
    LET lines == Lines(src)
        last  == IF range.end.line < Len(lines) THEN range.end.line ELSE Len(lines) - 1
    IN IF range.start.line >= Len(lines) THEN <<>>
       ELSE JoinedSlices(lines, range, range.start.line, last)

\* offset in the source of the first character of line i
RECURSIVE LineStart(_, _, _)
LineStart(src, i, from) ==
    IF i = 0 THEN from
    ELSE LineStart(src, i - 1,
             (CHOOSE k \in (from + 1)..Len(src) :
                  src[k] = "\n" /\ \A j \in (from + 1)..(k - 1) : src[j] # "\n"))

InBounds(src, pos) ==
    pos.line < Len(Lines(src)) /\ pos.column <= Len(Lines(src)[pos.line + 1])

OffsetOf(src, pos) == LineStart(src, pos.line, 0) + pos.column

\* C27: text_in_range returns the addressed text: the per-line slices from
\* the start column of the first line to the end column of the last line
\* joined by "\n", columns clamped, lines beyond the document ignored, empty
\* when the start line is beyond the document; for an in-bounds range this
\* is the substring of the source between the two positions.
C27_TextInRangeAddressed ==
    (op = "text_in_range" /\ PosLE(selection.start, selection.end)) =>
        /\ result = AddressedText(source, selection)
        /\ (InBounds(source, selection.start) /\ InBounds(source, selection.end)) =>
               result = SubSeq(source, OffsetOf(source, selection.start) + 1,
                               OffsetOf(source, selection.end))

\* ------------------------------------------------------------------------
\* Insertion point
\* ------------------------------------------------------------------------

\* number of whitespace characters before the first other character
LeadingWhitespace(line) ==
    CHOOSE n \in 0..Len(line) :
        /\ \A k \in 1..n : IsWs(line[k])
        /\ (n < Len(line) => ~IsWs(line[n + 1]))

\* C28: find_declaration_insertion_point returns a position on or above the
\* expression's start line: its line is the greatest line index up to the
\* start line that satisfies the language's statement-start predicate, its
\* column is that line's leading-whitespace length, and it is (0,0) when
\* the expression's line is beyond the document.
C28_InsertionPointIsNearestStatementStart ==
    op = "find_declaration_insertion_point" =>
        LET lines == Lines(source)
            expr_line == selection.start.line
        IN IF expr_line >= Len(lines) THEN result = Pos(0, 0)
           ELSE /\ result.line <= expr_line
                /\ is_statement_start(lines, result.line, language)
                /\ \A i \in (result.line + 1)..expr_line :
                       ~is_statement_start(lines, i, language)
                /\ result.column = LeadingWhitespace(lines[result.line + 1])

\* the scan went up from the expression's line and stopped below line 0, on
\* an indented line
C28_Witness ==
    /\ op = "find_declaration_insertion_point"
    /\ selection.start.line < Len(Lines(source))
    /\ 0 < result.line
    /\ result.line < selection.start.line
    /\ result.column > 0

\* ------------------------------------------------------------------------
\* Occurrences
\* ------------------------------------------------------------------------

Within(inner, outer) == PosLE(outer.start, inner.start) /\ PosLE(inner.end, outer.end)

\* C29: for a non-empty selection, every range returned by find_occurrences
\* addresses the trimmed selected text, the ranges are pairwise
\* non-overlapping and in ascending document order, and one of them lies in
\* the original selection; for documents with "\n" and with "\r\n" line
\* endings.
C29_OccurrencesRoundTrip ==
    LET trimmed == Trim(selected_text(context)) IN
    (op = "find_occurrences" /\ trimmed # <<>>) =>
        /\ \A k \in 1..Len(result) : text_in_range(source, result[k]) = trimmed
        /\ \A k \in 1..(Len(result) - 1) : PosLE(result[k].end, result[k + 1].start)
        /\ \E k \in 1..Len(result) : Within(result[k], selection)

\* ------------------------------------------------------------------------
\* Unused symbols
\* ------------------------------------------------------------------------

\* every symbol handed to the detector, children included
RECURSIVE AllSymbols(_)
AllSymbols(syms) ==
    IF syms = <<>> THEN {}
    ELSE {Head(syms)} \cup AllSymbols(Head(syms).children) \cup AllSymbols(Tail(syms))

Ignored(name) == (name # <<>> /\ name[1] = "_") \/ name \in SpecialNames

TrackedKinds ==
    {"Variable", "Function", "Method", "Class", "Struct", "Constant",
     "TypeParameter", "Module"}

Tracked(symbol) == ~Ignored(symbol.name) /\ symbol.kind \in TrackedKinds

\* the places where the name stands in the text as a whole identifier
IdentifierOccurrences(text, name) ==
    {i \in 1..(Len(text) - Len(name) + 1) :
        /\ SubSeq(text, i, i + Len(name) - 1) = name
        /\ (i = 1 \/ ~IsWord(text[i - 1]))
        /\ (i + Len(name) > Len(text) \/ ~IsWord(text[i + Len(name)]))}

ReportedNames == {result[k].name : k \in 1..Len(result)}

\* C23: analyze reports a tracked symbol as unused exactly when its name
\* occurs in the source as an identifier at most once (an occurrence inside a
\* longer identifier is no use), and the results are sorted by range start.
C23_UnusedIffAtMostOneIdentifier ==
    op = "unused_analyze" =>
        /\ \A symbol \in AllSymbols(detector_symbols) :
               Tracked(symbol) =>
                   (symbol.name \in ReportedNames
                      <=> Cardinality(IdentifierOccurrences(source, symbol.name)) <= 1)
        /\ \A k \in 1..(Len(result) - 1) :
               PosLE(result[k].range.start, result[k + 1].range.start)

\* the part of C23 about the order of the results
C23_SortedOnly ==
    op = "unused_analyze" =>
        \A k \in 1..(Len(result) - 1) :
            PosLE(result[k].range.start, result[k + 1].range.start)

\* ------------------------------------------------------------------------
\* TODO priorities
\* ------------------------------------------------------------------------

\* the item's line carries "!" directly after the marker word
HasUrgencyMarker(item) ==
    LET line == Lines(source)[item.line]
        past == WordRunEnd(line, item.range.start.column + 1)
    IN past < Len(line) /\ line[past + 1] = "!"

ScannedItems == {result[k] : k \in 1..Len(result)}

\* C24 as stated: every item of scan_file has a priority within 0..5, and an
\* item with the urgency marker has a priority strictly greater than the base
\* priority of its kind, for every kind.
C24_UrgentStrictlyGreater ==
    op = "scan_file" =>
        \A item \in ScannedItems :
            /\ item.priority \in 0..5
            /\ HasUrgencyMarker(item) => item.priority > TodoKind_priority(item.kind)

\* C24, amended: every item of scan_file has a priority within 0..5; an item
\* without the urgency marker has the base priority of its kind, an item with
\* it has the base priority plus one, capped at 5: strictly greater than the
\* base for every kind except BUG, whose base priority is 5 already.
C24_UrgentRaisedUpToFive ==
    op = "scan_file" =>
        \A item \in ScannedItems :
            LET base == TodoKind_priority(item.kind) IN
            /\ item.priority \in 0..5
            /\ ~HasUrgencyMarker(item) => item.priority = base
            /\ HasUrgencyMarker(item) /\ item.kind # "Bug" => item.priority = base + 1
            /\ HasUrgencyMarker(item) /\ item.kind = "Bug" => item.priority = base

\* a scan that found an urgent BUG item and an urgent item of a custom kind
C24_Witness ==
    /\ op = "scan_file"
    /\ \E item \in ScannedItems : HasUrgencyMarker(item) /\ item.kind = "Bug"
    /\ \E item \in ScannedItems : HasUrgencyMarker(item) /\ item.kind = "Custom"

\* ------------------------------------------------------------------------
\* TODO index
\* ------------------------------------------------------------------------

\* the scan of the source last indexed for the uri, nothing when it was
\* removed or never indexed
ExpectedTodos(u) ==
    IF u \in DOMAIN last_indexed
      THEN scan_file(CommentScanner_new(<<>>), last_indexed[u])
      ELSE <<>>

RECURSIVE SumOfLengths(_)
SumOfLengths(uris) ==
    IF uris = {} THEN 0
    ELSE LET u == CHOOSE x \in uris : TRUE
         IN Len(ExpectedTodos(u)) + SumOfLengths(uris \ {u})

\* C26: after any index_document and remove_document calls,
\* get_document_todos(uri) is the scan of the source last indexed for uri
\* (empty if removed or never indexed), todo_count is the sum of the lengths
\* of these lists, and no uri is stored with an empty list.
C26_TodoIndexIsScanOfLastSource ==
    /\ \A u \in TodoUris : get_document_todos(todo_index, u) = ExpectedTodos(u)
    /\ todo_count(todo_index) = SumOfLengths(TodoUris)
    /\ \A u \in DOMAIN todo_index : todo_index[u] # <<>>

\* a document with items was indexed again with a source that has none,
\* while another document keeps its items
C26_Witness ==
    /\ op = "index_document"
    /\ uri \in DOMAIN last_indexed
    /\ uri \notin DOMAIN todo_index
    /\ scan_file(CommentScanner_new(<<>>), source) = <<>>
    /\ todo_count(todo_index) >= 2
    /\ Cardinality(DOMAIN todo_index) >= 2

\* ------------------------------------------------------------------------
\* LanguageService documents
\* ------------------------------------------------------------------------

OpenUris == DOMAIN documents

\* the text declares a class
DeclaresClass(content) ==
    \E p \in 0..Len(content) :
        /\ WordMatchAt(content, <<"c","l","a","s","s">>, p)
        /\ p + 6 < Len(content)
        /\ content[p + 6] = " "
        /\ IsIdentStart(content[p + 7])

\* C21: after any open, update and close calls the symbol index holds a
\* symbol set for exactly the open documents, built from each document's
\* latest text, so getDocumentSymbols of an open document whose text declares
\* a class returns symbols.
C21_SymbolIndexFollowsDocuments ==
    /\ DOMAIN index = OpenUris
    /\ (op = "get_document_symbols" /\ uri \in OpenUris
          /\ DeclaresClass(documents[uri].content)) => result # <<>>

RefactorCalls == {"extract_variable", "extract_method", "can_safe_delete", "safe_delete"}

\* the effect of updateDocument(uri', source') on the documents
UpdateEffect ==
    op' = "update_document" =>
        IF uri' \in OpenUris
          THEN /\ DOMAIN documents' = OpenUris
               /\ documents'[uri'].content = source'
               /\ documents'[uri'].language_id = documents[uri'].language_id
               /\ \A other \in OpenUris \ {uri'} : documents'[other] = documents[other]
          ELSE documents' = documents

RECURSIVE OpenTodoCount(_)
OpenTodoCount(uris) ==
    IF uris = {} THEN 0
    ELSE LET u == CHOOSE x \in uris : TRUE
         IN Len(scan_file(CommentScanner_new(<<>>), documents[u].content))
            + OpenTodoCount(uris \ {u})

\* C30: in every reachable state of LanguageService every uri with items in
\* the TODO index is an open document: getTodoItems of a uri that is not open
\* is empty, and getAllTodoItems and getTodoStats count the items of the open
\* documents only.
C30_TodoIndexOnlyOpenDocuments ==
    /\ DOMAIN todo_index \subseteq OpenUris
    /\ (op = "get_todo_items" /\ uri \notin OpenUris) => result = <<>>
    /\ op = "get_all_todo_items" =>
           /\ \A k \in 1..Len(result) : result[k].uri \in OpenUris
           /\ Len(result) = OpenTodoCount(OpenUris)
    /\ op = "get_todo_stats" => result.total = OpenTodoCount(OpenUris)

====
